---- MODULE Spec2Model ----
(***************************************************************************)
(* Verification model of the BookmarkAI ML worker infrastructure:          *)
(*   - the distributed rate limiter (sliding window / token bucket) and    *)
(*     the dual request+token check of the LLM dispatcher,                 *)
(*   - the API key pools of the LLM and the whisper dispatcher,            *)
(*   - the summarize and transcribe tasks with their singleton locks,      *)
(*     the results table and the cost tables.                              *)
(* Time is a discrete clock `now`; one tick stands for one second.         *)
(***************************************************************************)
EXTENDS Integers, Sequences, FiniteSets, TLC

\* ------------------------------------------------------------------ bounds
MaxTime == 3
NumClients == 2
MaxCost == 2
MaxDebt == 2
NumKeys == 2
NumDispatches == 2
MaxRetryAfter == 2
WhisperRetryAfter == 2
NumJobs == 2
NumShares == 1
SummarizeLockExpiry == 2
TranscribeLockExpiry == 3
SummarizeMaxRetries == 1
TranscribeMaxRetries == 1
MaxChunks == 2
MaxProcessingMs == 2
WhisperRequests == 1
WhisperWindow == 2
MultiRequestsA == 3
MultiWindowA == 1
MultiRequestsB == 2
MultiWindowB == 3
OpenAICapacity == 2
OpenAIRefill == 1
TokensCapacity == 3
TokensRefill == 1
CircuitBreakerSeconds == 2
MaxLimit == 2
MaxSpent == 2
MaxEstimate == 1
\* Largest capacity of the concurrent request limiter.
MaxConcurrent == 2
\* Largest token total of one call, estimated or actual.
MaxTokens == 3
\* Number of times the embed task of a share is run.
MaxRuns == 3
\* Audio times are counted in units of 1/UnitsPerSecond seconds.
UnitsPerSecond == 2
\* Length of one chunk (AudioProcessor.CHUNK_DURATION_SECONDS), in units.
ChunkDuration == 4
\* Longest audio, in units.
MaxDuration == 10
\* Most segments the provider returns for one chunk.
MaxSegments == 2
\* Spans of a preprocessed text.
MaxSpans == 2
\* Longest text given to truncate_to_limit, in characters.
MaxTextLen == 7
\* max_retries of generate_embeddings.
EmbedMaxRetries == 1
\* Number of record_attempt calls.
MaxAttempts == 3
\* Most services of a configuration document.
MaxServices == 2
\* Calls made on the concurrent request limiter.
MaxLimiterCalls == 6

Times == 0..MaxTime
Clients == 1..NumClients
Costs == 1..MaxCost

\* ------------------------------------------------------ rate limit config
Algorithm(s) ==
    IF s \in {"whisper", "multi"} THEN "sliding_window" ELSE "token_bucket"

Services == {"whisper", "multi", "openai", "openai_tokens"}
SWServices == {s \in Services : Algorithm(s) = "sliding_window"}
TBServices == {s \in Services : Algorithm(s) = "token_bucket"}

RateLimitWindow(s) ==
    CASE s = "whisper" -> << [requests |-> WhisperRequests, window |-> WhisperWindow] >>
      [] s = "multi" -> << [requests |-> MultiRequestsA, window |-> MultiWindowA],
                           [requests |-> MultiRequestsB, window |-> MultiWindowB] >>
      [] s = "openai" -> << [capacity |-> OpenAICapacity, refill_rate |-> OpenAIRefill] >>
      [] s = "openai_tokens" -> << [capacity |-> TokensCapacity, refill_rate |-> TokensRefill] >>

\* get_config: None for a service without configuration
get_config(s) == s \in Services

\* ------------------------------------------------------------------ state
VARIABLES
    now,        \* wall clock, seconds
    sw,         \* sorted set rl:sw:<service>:default, per sliding-window service
    tb,         \* keys rl:tb:<service>:default:tokens and :last, per token-bucket service
    cl,         \* per client: position inside check_limit / the dual check
    allowedAt,  \* history: number of whisper check_limit calls allowed at each time
    touched,    \* history: sliding-window keys changed by record_usage / rollback
    pair,       \* history: a record_usage followed by a rollback of the same client
    dual        \* history: request-limit state when a dual check started

VARIABLES
    _circuit_breaker_open,       \* DistributedRateLimiter._circuit_breaker_open
    _circuit_breaker_reset_time, \* DistributedRateLimiter._circuit_breaker_reset_time
    stored,     \* history per client: what its latest check_limit call did with the store
    last_error  \* history: time of the latest store error

VARIABLES
    key_status,             \* APIKeyPool.key_status
    key_last_used,          \* APIKeyPool.key_last_used
    key_error_count,        \* APIKeyPool.key_error_count
    key_rate_limited_until, \* APIKeyPool.key_rate_limited_until
    disp,       \* per dispatch: position in generate_summary_with_rate_limit
    sel,        \* history: what the latest key selection returned
    cooling     \* history per key: end of the cooldown of the latest mark_key_rate_limited,
                \* and whether mark_key_success came after it

VARIABLES
    service,            \* which service's worker owns the key pool in use
    api_keys,           \* whisper: APIKeyInfo per key (status, rate_limit_until, error_count)
    current_key_index,  \* whisper: round-robin cursor
    wdisp,              \* per dispatch: position in transcribe_with_rate_limit
    api_key_rotations_total  \* whisper: counter api_key_rotations_total{reason="rate_limit"}

VARIABLES
    jobs,       \* per submission: task arguments and position in the task body
    locks,      \* singleton locks in the shared store, per (task_type, share_id)
    results,    \* rows of ml_results
    costRows,   \* number of rows of llm_costs / transcription_costs per key
    hist        \* history per key: upserts, failed writes, last write

VARIABLES
    token_deficit   \* RateLimitedLLMClient.token_deficit

VARIABLES
    current_requests,  \* whisper: ConcurrentRequestLimiter.current_requests
    max_concurrent,    \* whisper: ConcurrentRequestLimiter.max_concurrent
    slot_hist          \* history: successful acquires, releases and refused acquires

VARIABLES
    embed_results,  \* ml_results rows of task_type embed_vectors, per share
    embeddings,     \* rows of the embeddings table
    vector_costs,   \* rows of the vector_costs table
    embed_runs,     \* history per share: task runs started and saves committed
    embed_return    \* history per share: how the latest run of the task ended

VARIABLES
    audio_duration,  \* transcribe_api: duration of the extracted audio (0: none yet)
    chunks,          \* transcribe_api: the list chunk_audio returned
    chunk_results,   \* transcribe_api: (chunk result, start offset) pairs so far
    final_result,    \* transcribe_api: what merge_chunks returned
    silence          \* transcribe_api: Phase 3.5, the silence check and its result

VARIABLES
    env,         \* budget settings of the worker's environment
    budget_call  \* history: the latest call of a check_budget_limits function

VARIABLES
    preflight    \* summarize_content: the text, its limit and the truncations made

VARIABLES
    backoff,     \* adaptive back-off: stored stats, history, hourly hash, recorders
    loader       \* RateLimitConfigLoader: the document read and self.configs

VARIABLES
    limiter_call, \* history: the latest call of ConcurrentRequestLimiter and its answer
    wrapped       \* rate_limit decorator: the invocations of a wrapped function

callstate == << limiter_call, wrapped >>
libstate == << backoff, loader, callstate >>
breaker == << _circuit_breaker_open, _circuit_breaker_reset_time, stored, last_error >>
rlstate == << sw, tb, cl, allowedAt, touched, pair, dual, breaker >>
llmpool == << token_deficit,
             key_status, key_last_used, key_error_count, key_rate_limited_until,
              disp, cooling >>
slotstate == << current_requests, max_concurrent, slot_hist >>
wpool == << api_keys, current_key_index, wdisp, slotstate, api_key_rotations_total >>
poolstate == << llmpool, wpool, service, sel >>
budgetstate == << env, budget_call >>
vectorstate == << embed_results, embeddings, vector_costs, embed_runs, embed_return >>
mergestate == << audio_duration, chunks, chunk_results, final_result, silence >>
taskstate == << jobs, locks, results, costRows, hist, budgetstate, vectorstate, mergestate, preflight, libstate >>

RECURSIVE SumTo(_, _)
SumTo(f, n) == IF n < 0 THEN 0 ELSE f[n] + SumTo(f, n - 1)

Min(a, b) == IF a < b THEN a ELSE b
Max(a, b) == IF a > b THEN a ELSE b
Abs(k) == IF k < 0 THEN -k ELSE k

\* A sorted set is kept as the number of script-inserted members per score
\* (req) plus the scores of the members "<identifier>:<now>" written by
\* record_usage (ru); the latter are unique per timestamp.
EmptyZSet == [req |-> [t \in Times |-> 0], ru |-> {}]

ZCard(z) == SumTo(z.req, MaxTime) + Cardinality(z.ru)

\* --------------------------------------------------- store scripts (4.B)
ZPrune(z, t, w) ==
    [req |-> [x \in Times |-> IF x < t - w THEN 0 ELSE z.req[x]],
     ru  |-> {x \in z.ru : x >= t - w}]

sliding_window_lua(z, t, w, N, c) ==
    LET p == ZPrune(z, t, w)
        count == ZCard(p)
    IN  IF count + c <= N
        THEN [allowed |-> TRUE, count |-> count + c, limit |-> N,
              z |-> [p EXCEPT !.req[t] = @ + c]]
        ELSE [allowed |-> FALSE, count |-> count, limit |-> N, z |-> p]

\* has / haslast: the :tokens and the :last key exist
EmptyBucket == [has |-> FALSE, tokens |-> 0, haslast |-> FALSE, last |-> 0]

Refilled(b, t, C, r) ==
    LET tokens == IF b.has THEN b.tokens ELSE C
        last == IF b.haslast THEN b.last ELSE t
        elapsed == Max(0, t - last)
    IN  Min(C, tokens + elapsed * r)

token_bucket_lua(b, t, C, r, c) ==
    LET tokens == Refilled(b, t, C, r)
    IN  IF tokens >= c
        THEN [allowed |-> TRUE, remaining |-> tokens - c, limit |-> C,
              b |-> [has |-> TRUE, tokens |-> tokens - c, haslast |-> TRUE, last |-> t]]
        ELSE [allowed |-> FALSE, remaining |-> tokens, limit |-> C,
              b |-> [has |-> TRUE, tokens |-> tokens, haslast |-> TRUE, last |-> t]]

\* ------------------------------------------- DistributedRateLimiter (4.C)
\* Result of one limit of the config, with the store contents it leaves.
_check_sliding_window(s, L, t, c) ==
    LET r == sliding_window_lua(sw[s], t, L.window, L.requests, c)
    IN  [allowed |-> r.allowed,
         remaining |-> IF r.allowed THEN Max(0, r.limit - r.count) ELSE 0,
         limit |-> r.limit, z |-> r.z, b |-> EmptyBucket]

\* Variant: capacity and refill rate handed to the script in the wrong order.
_check_token_bucket_swapped(s, L, t, c) ==
    LET r == token_bucket_lua(tb[s], t, L.refill_rate, L.capacity, c)
    IN  [allowed |-> r.allowed, remaining |-> r.remaining, limit |-> r.limit,
         z |-> EmptyZSet, b |-> r.b]

_check_token_bucket(s, L, t, c) ==
    LET r == token_bucket_lua(tb[s], t, L.capacity, L.refill_rate, c)
    IN  [allowed |-> r.allowed, remaining |-> r.remaining, limit |-> r.limit,
         z |-> EmptyZSet, b |-> r.b]

_check_single_limit(s, L, t, c) ==
    IF Algorithm(s) = "sliding_window"
    THEN _check_sliding_window(s, L, t, c)
    ELSE _check_token_bucket(s, L, t, c)

\* What a caller can observe of a service's limit state.
Observable(s) ==
    IF Algorithm(s) = "sliding_window" THEN ZCard(sw[s])
    ELSE IF tb[s].has THEN tb[s].tokens ELSE RateLimitWindow(s)[1].capacity

IdleClient ==
    [pc |-> "idle", svc |-> "whisper", cost |-> 1, lim |-> 1, ts |-> 0,
     outer |-> "none", tokc |-> 1, consumed |-> 0, result |-> "none"]

NoPair == [phase |-> "none", svc |-> "whisper", cost |-> 1, snap |-> 0]
NoDual == [phase |-> "none", snap |-> 0, clean |-> TRUE]

\* No store error has happened.
NoError == 0 - 1

\* The latest store error is less than the breaker's timeout ago.
InCooldown == last_error # NoError /\ now < last_error + CircuitBreakerSeconds

\* emitted: the results MetricsCollector.record_check counted for the call
\* (rate_limit_checks_total), in order.
NotStored ==
    [entered |-> FALSE, cooling |-> FALSE, invoked |-> FALSE, failed |-> FALSE,
     emitted |-> << >>]
Entered ==
    [entered |-> TRUE, cooling |-> InCooldown, invoked |-> FALSE, failed |-> FALSE,
     emitted |-> << >>]

\* MetricsCollector.record_check: the label of the counter it increments.
record_check(allowed, error) ==
    IF error THEN "error" ELSE IF allowed THEN "allowed" ELSE "denied"

RLInit ==
    /\ now = 0
    /\ _circuit_breaker_open = FALSE
    /\ _circuit_breaker_reset_time = 0
    /\ stored = [c \in Clients |-> NotStored]
    /\ last_error = NoError
    /\ sw = [s \in SWServices |-> EmptyZSet]
    /\ tb = [s \in TBServices |-> EmptyBucket]
    /\ cl = [c \in Clients |-> IdleClient]
    /\ allowedAt = [t \in Times |-> 0]
    /\ touched = [s \in SWServices |-> FALSE]
    /\ pair = [c \in Clients |-> NoPair]
    /\ dual = [c \in Clients |-> NoDual]

\* Another client changed the store of service s: the histories of the
\* other clients that were watching s are no longer undisturbed.
DisturbPair(c, s) ==
    [d \in Clients |->
        IF d # c /\ pair[d].phase # "none" /\ pair[d].svc = s
        THEN NoPair ELSE pair[d]]

DisturbDual(c, s) ==
    [d \in Clients |->
        IF d # c /\ dual[d].phase # "none" /\ s = "openai"
        THEN [dual[d] EXCEPT !.clean = FALSE] ELSE dual[d]]

\* Variant: the reset time is not compared with the clock.
_is_circuit_breaker_open_no_reset ==
    _circuit_breaker_open

\* _is_circuit_breaker_open: the value it returns. The flag it leaves has
\* the same value: an open breaker is closed once the reset time is reached.
_is_circuit_breaker_open ==
    _circuit_breaker_open /\ now < _circuit_breaker_reset_time

\* check_limit up to its first store call: circuit breaker, config lookup,
\* timestamp. With the breaker open RateLimiterUnavailableError is raised.
EnterCheck(c, s, k, o) ==
    IF _is_circuit_breaker_open
    THEN [cl[c] EXCEPT !.pc = "idle", !.svc = s, !.cost = k, !.lim = 1, !.ts = 0,
                       !.outer = "none", !.consumed = 0, !.result = "unavailable"]
    ELSE IF ~get_config(s)
    THEN [cl[c] EXCEPT !.pc = "idle", !.svc = s, !.cost = k, !.lim = 1, !.ts = 0,
                       !.outer = "none", !.consumed = 0, !.result = "allowed"]
    ELSE [cl[c] EXCEPT !.pc = "eval", !.svc = s, !.cost = k, !.lim = 1, !.ts = now,
                       !.outer = o, !.consumed = 0, !.result = "none"]

check_limit(c, s, k) ==
    /\ UNCHANGED << poolstate, taskstate >>
    /\ cl[c].pc = "idle"
    /\ cl' = [cl EXCEPT ![c] = EnterCheck(c, s, k, "none")]
    /\ _circuit_breaker_open' = _is_circuit_breaker_open
    /\ stored' = [stored EXCEPT ![c] = Entered]
    /\ pair' = [pair EXCEPT ![c] = NoPair]
    /\ dual' = [dual EXCEPT ![c] = NoDual]
    /\ UNCHANGED << now, sw, tb, allowedAt, touched >>
    /\ UNCHANGED << _circuit_breaker_reset_time, last_error >>

\* The dual check of the LLM dispatcher starts with the request check
\* check_limit('openai', cost=1.0); k is the token cost checked afterwards.
_check_dual_limits(c, k) ==
    /\ UNCHANGED << poolstate, taskstate >>
    /\ cl[c].pc = "idle"
    /\ cl' = [cl EXCEPT ![c] = [EnterCheck(c, "openai", 1, "dual_req") EXCEPT !.tokc = k]]
    /\ _circuit_breaker_open' = _is_circuit_breaker_open
    /\ stored' = [stored EXCEPT ![c] = Entered]
    /\ pair' = [pair EXCEPT ![c] = NoPair]
    /\ dual' = [dual EXCEPT ![c] = NoDual]
    /\ UNCHANGED << now, sw, tb, allowedAt, touched >>
    /\ UNCHANGED << _circuit_breaker_reset_time, last_error >>

\* Client state after the store answered r for limit cl[c].lim.
\*  - refusal: check_limit raises RateLimitError, which the dual check does
\*    not catch;
\*  - more limits in the config: next limit, fresh timestamp;
\*  - all limits passed: check_limit returns r (r.allowed = TRUE); the dual
\*    check goes on with the token check, or tests token_result.allowed.
AfterStore(c, r) ==
    LET me == [cl[c] EXCEPT !.consumed = IF r.allowed THEN @ + cl[c].cost ELSE @]
    IN  IF ~r.allowed
        THEN [me EXCEPT !.pc = "idle", !.result = "denied", !.lim = 1, !.ts = 0]
        ELSE IF me.lim < Len(RateLimitWindow(me.svc))
        THEN [me EXCEPT !.lim = @ + 1, !.ts = now]
        ELSE CASE me.outer = "none" ->
                    [me EXCEPT !.pc = "idle", !.result = "allowed", !.lim = 1, !.ts = 0]
               [] me.outer = "dual_req" ->
                    [EnterCheck(c, "openai_tokens", me.tokc, "dual_tok")
                        EXCEPT !.tokc = me.tokc]
               [] me.outer = "dual_tok" ->
                    \* token_result.allowed holds whenever check_limit
                    \* returns, so the rollback branch is never taken
                    [me EXCEPT !.pc = "idle", !.result = "allowed", !.lim = 1, !.ts = 0]

\* The request limit as the dual check found it: the balance after refill
\* (or the count after pruning), before this call's own consumption.
BeforeConsumption(s, L, t) ==
    IF Algorithm(s) = "sliding_window"
    THEN ZCard(ZPrune(sw[s], t, L.window))
    ELSE Refilled(tb[s], t, L.capacity, L.refill_rate)

\* One store round trip of check_limit: the script runs atomically with the
\* timestamp the client took before the call.
StoreEval(c) ==
    /\ UNCHANGED << poolstate, taskstate >>
    /\ cl[c].pc = "eval"
    /\ LET s == cl[c].svc
           L == RateLimitWindow(s)[cl[c].lim]
           r == _check_single_limit(s, L, cl[c].ts, cl[c].cost)
           nxt == AfterStore(c, r)
       IN  /\ cl' = [cl EXCEPT ![c] = nxt]
           /\ sw' = IF s \in SWServices THEN [sw EXCEPT ![s] = r.z] ELSE sw
           /\ tb' = IF s \in TBServices THEN [tb EXCEPT ![s] = r.b] ELSE tb
           /\ allowedAt' =
                 IF s = "whisper" /\ cl[c].outer = "none" /\ nxt.result = "allowed"
                    /\ ~touched["whisper"]
                 THEN [allowedAt EXCEPT ![now] = @ + 1] ELSE allowedAt
           /\ pair' = DisturbPair(c, s)
           /\ dual' =
                 LET d == DisturbDual(c, s)
                 IN  CASE cl[c].outer = "dual_req" /\ r.allowed ->
                            [d EXCEPT ![c] = [phase |-> "req_ok", clean |-> TRUE,
                                              snap |-> BeforeConsumption(s, L, cl[c].ts)]]
                       [] cl[c].outer = "dual_tok" /\ ~r.allowed ->
                            [d EXCEPT ![c].phase = "refused"]
                       [] OTHER -> d
           /\ LET next_call == r.allowed /\ cl[c].outer = "dual_req"
                                /\ cl[c].lim = Len(RateLimitWindow(s))
              IN  /\ _circuit_breaker_open' =
                        IF next_call THEN _is_circuit_breaker_open
                        ELSE _circuit_breaker_open
                  /\ stored' = [stored EXCEPT ![c] =
                        IF next_call THEN Entered
                        ELSE [@ EXCEPT !.invoked = TRUE,
                                       !.emitted =
                                          IF ~r.allowed
                                          THEN Append(@, record_check(FALSE, FALSE))
                                          ELSE IF cl[c].lim = Len(RateLimitWindow(s))
                                          THEN Append(@, record_check(TRUE, FALSE))
                                          ELSE @]]
    /\ UNCHANGED << now, touched, _circuit_breaker_reset_time, last_error >>

\* Variant: the store error is reported and the circuit breaker is left alone.
StoreFailsBreakerUntouched(c, applied) ==
    /\ UNCHANGED << poolstate, taskstate >>
    /\ cl[c].pc = "eval"
    /\ cl' = [cl EXCEPT ![c] =
                [@ EXCEPT !.pc = "idle", !.result = "unavailable", !.lim = 1, !.ts = 0]]
    /\ stored' = [stored EXCEPT ![c] =
                    [@ EXCEPT !.invoked = TRUE, !.failed = TRUE,
                              !.emitted = Append(@, record_check(FALSE, TRUE))]]
    /\ last_error' = now
    /\ UNCHANGED << now, sw, tb, allowedAt, touched, pair, dual >>
    /\ UNCHANGED << _circuit_breaker_open, _circuit_breaker_reset_time >>

\* One store round trip of check_limit that ends in a RedisError: the except
\* branch opens the circuit breaker and raises RateLimiterUnavailableError.
\* The script has run in the store (applied) when only its reply was lost.
StoreFails(c, applied) ==
    /\ UNCHANGED << poolstate, taskstate >>
    /\ cl[c].pc = "eval"
    /\ LET s == cl[c].svc
           L == RateLimitWindow(s)[cl[c].lim]
           r == _check_single_limit(s, L, cl[c].ts, cl[c].cost)
       IN  /\ sw' = IF applied /\ s \in SWServices THEN [sw EXCEPT ![s] = r.z] ELSE sw
           /\ tb' = IF applied /\ s \in TBServices THEN [tb EXCEPT ![s] = r.b] ELSE tb
           /\ pair' = IF applied THEN DisturbPair(c, s) ELSE pair
           /\ dual' = [(IF applied THEN DisturbDual(c, s) ELSE dual) EXCEPT ![c] = NoDual]
    /\ cl' = [cl EXCEPT ![c] =
                [@ EXCEPT !.pc = "idle", !.result = "unavailable", !.lim = 1, !.ts = 0]]
    /\ _circuit_breaker_open' = TRUE
    /\ _circuit_breaker_reset_time' = now + CircuitBreakerSeconds
    /\ stored' = [stored EXCEPT ![c] =
                    [@ EXCEPT !.invoked = TRUE, !.failed = TRUE,
                              !.emitted = Append(@, record_check(FALSE, TRUE))]]
    /\ last_error' = now
    /\ UNCHANGED << now, allowedAt, touched >>

\* zrevrange(key, 0, n - 1) followed by zrem: the n members of highest score.
RECURSIVE ZRemTop(_, _)
ZRemTop(z, n) ==
    IF n <= 0 \/ ZCard(z) = 0 THEN z
    ELSE LET present == {x \in Times : z.req[x] > 0} \cup z.ru
             m == CHOOSE x \in present : \A y \in present : y <= x
         IN  IF m \in z.ru
             THEN ZRemTop([z EXCEPT !.ru = @ \ {m}], n - 1)
             ELSE ZRemTop([z EXCEPT !.req[m] = @ - 1], n - 1)

\* record_usage with a signed cost k: the sorted set / bucket it leaves.
record_usage_sw(z, k) ==
    IF k > 0 THEN [z EXCEPT !.ru = @ \cup {now}]
    ELSE ZRemTop(z, Abs(k))

record_usage_tb(b, k) ==
    [b EXCEPT !.has = TRUE, !.tokens = (IF b.has THEN b.tokens ELSE 0) - k]

ApplyUsage(c, s, k) ==
    /\ sw' = IF s \in SWServices THEN [sw EXCEPT ![s] = record_usage_sw(sw[s], k)] ELSE sw
    /\ tb' = IF s \in TBServices THEN [tb EXCEPT ![s] = record_usage_tb(tb[s], k)] ELSE tb
    /\ touched' = IF s \in SWServices THEN [touched EXCEPT ![s] = TRUE] ELSE touched
    /\ dual' = [DisturbDual(c, s) EXCEPT ![c] = NoDual]

\* The balance is kept within MaxDebt of its nominal range to bound the model.
BalanceInRange(s, k) ==
    s \in TBServices =>
        LET t == record_usage_tb(tb[s], k).tokens
        IN  -MaxDebt <= t /\ t <= RateLimitWindow(s)[1].capacity + MaxDebt

record_usage(c, s, k) ==
    /\ UNCHANGED << poolstate, taskstate >>
    /\ cl[c].pc = "idle"
    /\ get_config(s)
    /\ BalanceInRange(s, k)
    /\ ApplyUsage(c, s, k)
    /\ pair' = [DisturbPair(c, s) EXCEPT ![c] =
                  [phase |-> "recorded", svc |-> s, cost |-> k,
                   snap |-> Observable(s)]]
    /\ UNCHANGED << now, cl, allowedAt, breaker >>

rollback(c, s, k) ==
    /\ UNCHANGED << poolstate, taskstate >>
    /\ cl[c].pc = "idle"
    /\ get_config(s)
    /\ BalanceInRange(s, -Abs(k))
    /\ ApplyUsage(c, s, -Abs(k))
    /\ pair' = [DisturbPair(c, s) EXCEPT ![c] =
                  IF pair[c].phase = "recorded" /\ pair[c].svc = s /\ pair[c].cost = k
                  THEN [pair[c] EXCEPT !.phase = "done"]
                  ELSE NoPair]
    /\ UNCHANGED << now, cl, allowedAt, breaker >>

\* --------------------------------------------------- APIKeyPool (4.E)
Keys == 1..NumKeys
Dispatches == 1..NumDispatches
RetryAfters == 1..MaxRetryAfter
ErrorThreshold == 5
None == 0
\* key_last_used starts at the epoch, before every reading of the clock
NeverUsed == -1
NotSelected == None - 1

\* APIKeyInfo.__init__ (concurrent_requests is written but never read and is
\* left out); rate_limit_until 0 is None, last_used NeverUsed is None.
APIKeyInfo ==
    [status |-> "active", last_used |-> NeverUsed, rate_limit_until |-> 0,
     error_count |-> 0]

PoolInit ==
    /\ token_deficit = 0
    /\ key_status = [k \in Keys |-> "active"]
    /\ key_last_used = [k \in Keys |-> NeverUsed]
    /\ key_error_count = [k \in Keys |-> 0]
    /\ key_rate_limited_until = [k \in Keys |-> 0]
    /\ disp = [d \in Dispatches |-> [pc |-> "select", key |-> None, attempt |-> 0]]
    /\ sel = NotSelected
    /\ cooling = [k \in Keys |-> [until |-> 0, reactivated |-> FALSE]]
    /\ api_keys = [k \in Keys |-> APIKeyInfo]
    /\ current_key_index = 0
    /\ wdisp = [d \in Dispatches |-> [pc |-> "acquire", key |-> None, tried |-> 0]]
    /\ api_key_rotations_total = 0
    /\ current_requests = 0
    /\ slot_hist = [acquired |-> 0, released |-> 0, refused |-> 0]

\* get_next_key: keys whose rate limit has expired are reactivated, then the
\* least recently used active key is taken (stable sort: pool order on ties).
\* Variant: the rate-limit-until time is not compared with the clock.
RateLimitExpiredUnchecked(k) ==
    key_status[k] = "rate_limited"

RateLimitExpired(k) ==
    key_status[k] = "rate_limited" /\ now > key_rate_limited_until[k]

StatusAfterRecovery ==
    [k \in Keys |-> IF RateLimitExpired(k) THEN "active" ELSE key_status[k]]

get_next_key ==
    LET active_keys == {k \in Keys : StatusAfterRecovery[k] = "active"}
    IN  IF active_keys = {} THEN None
        ELSE CHOOSE k \in active_keys :
                \A j \in active_keys :
                    \/ key_last_used[k] < key_last_used[j]
                    \/ (key_last_used[k] = key_last_used[j] /\ k <= j)

max_retries == NumKeys * 2

\* One pass through the head of the attempt loop of
\* generate_summary_with_rate_limit: select a key or give up.
SelectKey(d) ==
    /\ service = "llm"
    /\ disp[d].pc = "select"
    /\ LET api_key == get_next_key
       IN  /\ key_status' = StatusAfterRecovery
           /\ key_error_count' =
                [k \in Keys |-> IF RateLimitExpired(k) THEN 0 ELSE key_error_count[k]]
           /\ key_last_used' =
                IF api_key = None THEN key_last_used
                ELSE [key_last_used EXCEPT ![api_key] = now]
           /\ sel' = api_key
           /\ disp' = [disp EXCEPT ![d] =
                IF api_key = None
                THEN [pc |-> "done", key |-> None, attempt |-> 0]
                ELSE [@ EXCEPT !.pc = "call", !.key = api_key]]
    /\ UNCHANGED << now, key_rate_limited_until, cooling >>
    /\ UNCHANGED << token_deficit, rlstate, wpool, service, taskstate >>

\* The loop goes on with the next attempt, or the error is raised.
\* Variant: the loop goes on for as long as the error allows it.
NextAttemptUnbounded(d, goon) ==
    IF goon
    THEN [pc |-> "select", key |-> None, attempt |-> disp[d].attempt + 1]
    ELSE [pc |-> "done", key |-> None, attempt |-> 0]

NextAttempt(d, goon) ==
    IF goon /\ disp[d].attempt < max_retries - 1
    THEN [pc |-> "select", key |-> None, attempt |-> disp[d].attempt + 1]
    ELSE [pc |-> "done", key |-> None, attempt |-> 0]

\* mark_key_success, after _rate_limited_call has returned.
mark_key_success(d) ==
    /\ service = "llm"
    /\ disp[d].pc = "call"
    /\ LET key == disp[d].key
       IN  /\ key_error_count' = [key_error_count EXCEPT ![key] = 0]
           /\ key_status' = [key_status EXCEPT ![key] =
                                IF @ # "exhausted" THEN "active" ELSE @]
           /\ cooling' = [cooling EXCEPT ![key].reactivated = TRUE]
    /\ disp' = [disp EXCEPT ![d] = NextAttempt(d, FALSE)]
    /\ sel' = NotSelected
    /\ UNCHANGED << now, key_last_used, key_rate_limited_until >>
    /\ UNCHANGED << wpool, service, taskstate >>

\* The deficit _adjust_token_usage leaves: an underestimate is added, an
\* overestimate is taken off down to 0.
\* Variant: the overestimate is taken off without the lower limit.
AdjustedDeficitUnclamped(estimated_tokens, actual_tokens) ==
    LET token_difference == actual_tokens - estimated_tokens
    IN  IF token_difference > 0 THEN token_deficit + token_difference
        ELSE token_deficit - Abs(token_difference)

AdjustedDeficit(estimated_tokens, actual_tokens) ==
    LET token_difference == actual_tokens - estimated_tokens
    IN  IF token_difference > 0 THEN token_deficit + token_difference
        ELSE Max(0, token_deficit - Abs(token_difference))

\* _adjust_token_usage: the deficit is adjusted; after an underestimate the
\* additional tokens are recorded on the token limiter (cost multiplier 1).
_adjust_token_usage(estimated_tokens, actual_tokens) ==
    LET token_difference == actual_tokens - estimated_tokens
    IN  /\ token_deficit' = AdjustedDeficit(estimated_tokens, actual_tokens)
        /\ IF token_difference > 0
           THEN /\ BalanceInRange("openai_tokens", token_difference)
                /\ tb' = [tb EXCEPT !["openai_tokens"] =
                                record_usage_tb(@, token_difference)]
                /\ pair' = DisturbPair(None, "openai_tokens")
           ELSE UNCHANGED << tb, pair >>
        /\ UNCHANGED << sw, cl, allowedAt, touched, dual, breaker >>

\* Steps 3 and 4 of _rate_limited_call and the success branch of the key
\* loop: the provider answered with actual_tokens used.
ReturnsResult(d, estimated_tokens, actual_tokens) ==
    /\ _adjust_token_usage(estimated_tokens, actual_tokens)
    /\ mark_key_success(d)

\* Variant: the until time and the error count are recorded, the status is not.
mark_key_rate_limited_no_status(d, retry_after) ==
    /\ service = "llm"
    /\ disp[d].pc = "call"
    /\ LET key == disp[d].key
       IN  /\ key_rate_limited_until' =
                [key_rate_limited_until EXCEPT ![key] = now + retry_after]
           /\ key_error_count' = [key_error_count EXCEPT ![key] = @ + 1]
           /\ cooling' = [cooling EXCEPT ![key] =
                            [until |-> now + retry_after, reactivated |-> FALSE]]
    /\ disp' = [disp EXCEPT ![d] = NextAttempt(d, TRUE)]
    /\ sel' = NotSelected
    /\ UNCHANGED << now, key_status, key_last_used >>
    /\ UNCHANGED << token_deficit, rlstate, wpool, service, taskstate >>

\* _rate_limited_call raised RateLimitError: mark_key_rate_limited.
mark_key_rate_limited(d, retry_after) ==
    /\ service = "llm"
    /\ disp[d].pc = "call"
    /\ LET key == disp[d].key
       IN  /\ key_status' = [key_status EXCEPT ![key] = "rate_limited"]
           /\ key_rate_limited_until' =
                [key_rate_limited_until EXCEPT ![key] = now + retry_after]
           /\ key_error_count' = [key_error_count EXCEPT ![key] = @ + 1]
           /\ cooling' = [cooling EXCEPT ![key] =
                            [until |-> now + retry_after, reactivated |-> FALSE]]
    /\ disp' = [disp EXCEPT ![d] = NextAttempt(d, TRUE)]
    /\ sel' = NotSelected
    /\ UNCHANGED << now, key_last_used >>
    /\ UNCHANGED << token_deficit, rlstate, wpool, service, taskstate >>

\* _rate_limited_call raised another exception: mark_key_error; the loop
\* goes on unless the message mentions "rate_limit".
mark_key_error(d, mentions_rate_limit) ==
    /\ service = "llm"
    /\ disp[d].pc = "call"
    /\ LET key == disp[d].key
       IN  /\ key_error_count' = [key_error_count EXCEPT ![key] = @ + 1]
           /\ key_status' = [key_status EXCEPT ![key] =
                                IF key_error_count[key] + 1 >= ErrorThreshold
                                THEN "error" ELSE @]
    /\ disp' = [disp EXCEPT ![d] = NextAttempt(d, ~mentions_rate_limit)]
    /\ sel' = NotSelected
    /\ UNCHANGED << now, key_last_used, key_rate_limited_until, cooling >>
    /\ UNCHANGED << token_deficit, rlstate, wpool, service, taskstate >>

\* ------------------------------------- whisper key pool (round-robin)
WhisperErrorThreshold == 3

is_available(k) ==
    \/ api_keys[k].status = "active"
    \/ /\ api_keys[k].status = "rate_limited"
       /\ api_keys[k].rate_limit_until # 0
       /\ now > api_keys[k].rate_limit_until

\* The wrapper of the rate_limit decorator has not been called.
NotInvoked == [pc |-> "idle", raise_on_limit |-> TRUE, allowed |-> FALSE, runs |-> 0]

\* No call has been made on the limiter.
NoLimiterCall == [op |-> "none", before |-> 0, returned |-> FALSE]

\* ConcurrentRequestLimiter.acquire: whether a slot is free.
acquire == current_requests < max_concurrent

\* ConcurrentRequestLimiter.release: the counter after the call.
\* Variant: the counter is left as it is.
release_keeps_slot == current_requests

\* Variant: the counter is decremented without the lower limit.
release_unclamped == current_requests - 1

release == Max(0, current_requests - 1)

\* ConcurrentRequestLimiter.available_slots.
\* Variant: the capacity is reported.
available_slots_capacity == max_concurrent

available_slots == Max(0, max_concurrent - current_requests)

\* RateLimitedWhisperClient.get_queue_depth, the limiter's part.
get_queue_depth ==
    [concurrent_requests |-> current_requests,
     available_slots |-> available_slots,
     max_concurrent |-> max_concurrent]

\* A dispatch that has returned or raised.
WDone == [pc |-> "done", key |-> None, tried |-> 0]

\* The key at a 0-based position of the list.
KeyAt(i) == (i % NumKeys) + 1

\* _get_next_available_key: the number of unavailable keys stepped over
\* from the cursor before an available one; NumKeys when there is none.
SkippedKeys ==
    LET offs == {o \in 0..(NumKeys - 1) : is_available(KeyAt(current_key_index + o))}
    IN  IF offs = {} THEN NumKeys
        ELSE CHOOSE o \in offs : \A q \in offs : o <= q

_get_next_available_key ==
    IF SkippedKeys = NumKeys THEN None ELSE KeyAt(current_key_index + SkippedKeys)

WNextIteration(d) ==
    IF wdisp[d].tried + 1 < NumKeys
    THEN [pc |-> "select", key |-> None, tried |-> wdisp[d].tried + 1]
    ELSE WDone

\* The position a step leaves the dispatch in; leaving the try block runs
\* its finally clause, which releases the slot.
WGoesTo(d, next) ==
    /\ wdisp' = [wdisp EXCEPT ![d] = next]
    /\ current_requests' = IF next = WDone THEN release ELSE current_requests
    /\ slot_hist' = IF next = WDone
                    THEN [slot_hist EXCEPT !.released = @ + 1] ELSE slot_hist
    /\ UNCHANGED max_concurrent

\* Entry of transcribe_with_rate_limit: a refused acquire raises
\* RateLimitError(retry_after_seconds=5) before the try block.
WAcquire(d) ==
    /\ service = "whisper"
    /\ wdisp[d].pc = "acquire"
    /\ IF acquire
       THEN /\ current_requests' = current_requests + 1
            /\ slot_hist' = [slot_hist EXCEPT !.acquired = @ + 1]
            /\ wdisp' = [wdisp EXCEPT ![d].pc = "limit"]
       ELSE /\ slot_hist' = [slot_hist EXCEPT !.refused = @ + 1]
            /\ wdisp' = [wdisp EXCEPT ![d] = WDone]
            /\ UNCHANGED current_requests
    /\ sel' = NotSelected
    /\ UNCHANGED << now, api_keys, current_key_index, max_concurrent,
                    api_key_rotations_total, rlstate, llmpool, service, taskstate >>

\* The rate limit check inside the try block; its answer is an input here.
\* A refusal raises RateLimitError.
WCheckRateLimit(d, allowed) ==
    /\ service = "whisper"
    /\ wdisp[d].pc = "limit"
    /\ WGoesTo(d, IF allowed THEN [wdisp[d] EXCEPT !.pc = "select"] ELSE WDone)
    /\ sel' = NotSelected
    /\ UNCHANGED << now, api_keys, current_key_index, api_key_rotations_total,
                    rlstate, llmpool, service, taskstate >>

\* Head of the key loop of transcribe_with_rate_limit.
WSelectKey(d) ==
    /\ service = "whisper"
    /\ wdisp[d].pc = "select"
    /\ LET key_info == _get_next_available_key
       IN  /\ sel' = key_info
           /\ current_key_index' =
                IF key_info = None THEN current_key_index
                ELSE (current_key_index + SkippedKeys + 1) % NumKeys
           /\ api_keys' =
                IF key_info = None THEN api_keys
                ELSE [api_keys EXCEPT ![key_info] =
                        IF @.status = "rate_limited"
                        THEN [@ EXCEPT !.status = "active", !.rate_limit_until = 0]
                        ELSE @]
           /\ WGoesTo(d, IF key_info = None THEN WDone
                          ELSE [wdisp[d] EXCEPT !.pc = "call", !.key = key_info])
    /\ UNCHANGED << now, api_key_rotations_total, rlstate, llmpool, service, taskstate >>

\* The provider answered: last_used is set and the key's error count is reset.
WCallSucceeds(d) ==
    /\ service = "whisper"
    /\ wdisp[d].pc = "call"
    /\ api_keys' = [api_keys EXCEPT ![wdisp[d].key] =
                        [@ EXCEPT !.last_used = now, !.error_count = 0]]
    /\ WGoesTo(d, WDone)
    /\ sel' = NotSelected
    /\ UNCHANGED << now, current_key_index, api_key_rotations_total,
                    rlstate, llmpool, service, taskstate >>

\* The provider's error mentions a rate limit: mark_rate_limited(60).
mark_rate_limited(d) ==
    /\ service = "whisper"
    /\ wdisp[d].pc = "call"
    /\ api_keys' = [api_keys EXCEPT ![wdisp[d].key] =
                        [@ EXCEPT !.status = "rate_limited",
                                  !.rate_limit_until = now + WhisperRetryAfter]]
    /\ WGoesTo(d, WNextIteration(d))
    /\ sel' = NotSelected
    /\ api_key_rotations_total' = api_key_rotations_total + 1
    /\ UNCHANGED << now, current_key_index, rlstate, llmpool, service, taskstate >>

\* Any other provider error: mark_error.
mark_error(d) ==
    /\ service = "whisper"
    /\ wdisp[d].pc = "call"
    /\ api_keys' = [api_keys EXCEPT ![wdisp[d].key] =
                        [@ EXCEPT !.error_count = @ + 1,
                                  !.status = IF api_keys[wdisp[d].key].error_count + 1
                                                    >= WhisperErrorThreshold
                                             THEN "error" ELSE @]]
    /\ WGoesTo(d, WNextIteration(d))
    /\ sel' = NotSelected
    /\ UNCHANGED << now, current_key_index, api_key_rotations_total,
                    rlstate, llmpool, service, taskstate >>

\* ------------------------------------------------ budget queries (4.K)
Limits == 0..MaxLimit
Spent == 0..MaxSpent
Estimates == 0..MaxEstimate
BudgetServices == {"llm", "whisper", "vector"}

\* *_HOURLY_COST_LIMIT, *_DAILY_COST_LIMIT, *_BUDGET_STRICT_MODE
Environments == [hourly_limit : Limits, daily_limit : Limits, strict_mode : BOOLEAN]
DefaultEnv == [hourly_limit |-> MaxLimit, daily_limit |-> MaxLimit, strict_mode |-> FALSE]

\* What the database does during one call: every statement succeeds, the
\* costs table is missing, a statement fails, or the connection fails.
StorageOutcomes == {"ok", "no_table", "query_error", "connect_error"}

\* llm_service.db.check_budget_limits(e) with hu and du the sums the two
\* queries return. "refused" is a returned allowed=False; the exceptions are
\* the ones that leave the function.
llm_check_budget_limits(e, hu, du, storage) ==
    IF env.hourly_limit = 0 /\ env.daily_limit = 0 THEN "allowed"
    ELSE IF storage = "connect_error" THEN "DatabaseError"
    ELSE IF storage \in {"no_table", "query_error"} THEN "allowed"
    ELSE IF env.hourly_limit > 0 /\ hu + e > env.hourly_limit
    THEN IF env.strict_mode THEN "BudgetExceededError" ELSE "refused"
    ELSE IF env.daily_limit > 0 /\ du + e > env.daily_limit
    THEN IF env.strict_mode THEN "BudgetExceededError" ELSE "refused"
    ELSE "allowed"

\* whisper_service.db.check_budget_limits: no strict mode.
whisper_check_budget_limits(e, hu, du, storage) ==
    IF env.hourly_limit = 0 /\ env.daily_limit = 0 THEN "allowed"
    ELSE IF storage = "connect_error" THEN "DatabaseError"
    ELSE IF storage \in {"no_table", "query_error"} THEN "allowed"
    ELSE IF env.hourly_limit > 0 /\ hu + e > env.hourly_limit THEN "refused"
    ELSE IF env.daily_limit > 0 /\ du + e > env.daily_limit THEN "refused"
    ELSE "allowed"

\* vector_service.db.check_budget_limits: returns (False, msg) in strict
\* mode, logs a warning and goes on otherwise ("warned" is a returned True
\* after a warning). A psycopg2.Error inside the with block is turned into
\* DatabaseError by get_db_connection, which the except clause of the
\* function does not catch.
vector_check_budget_limits(e, hu, du, storage) ==
    IF storage # "ok" THEN "DatabaseError"
    ELSE IF hu + e > env.hourly_limit /\ env.strict_mode THEN "refused"
    ELSE IF du + e > env.daily_limit /\ env.strict_mode THEN "refused"
    ELSE IF hu + e > env.hourly_limit \/ du + e > env.daily_limit THEN "warned"
    ELSE "allowed"

check_budget_limits(svc, e, hu, du, storage) ==
    CASE svc = "llm" -> llm_check_budget_limits(e, hu, du, storage)
      [] svc = "whisper" -> whisper_check_budget_limits(e, hu, du, storage)
      [] svc = "vector" -> vector_check_budget_limits(e, hu, du, storage)

NoCall == [service |-> "none", estimated |-> 0, hourly_used |-> 0, daily_used |-> 0,
           storage |-> "ok", result |-> "none"]

\* ------------------------------------- tasks, singleton locks, result store
Jobs == 1..NumJobs
Shares == 1..NumShares
TaskTypes == {"summarization", "transcription"}
TaskKeys == TaskTypes \X Shares
ProcessingTimes == 1..MaxProcessingMs

\* lock_expiry of the task decorators (300 s and 900 s), scaled
lock_expiry(t) == IF t = "summarization" THEN SummarizeLockExpiry ELSE TranscribeLockExpiry
\* retries: self.retry(max_retries=5) for summarize, autoretry max_retries 3 for transcribe
max_task_retries(t) == IF t = "summarization" THEN SummarizeMaxRetries ELSE TranscribeMaxRetries

\* What the budget check of the current execution found: whether the cost
\* would breach a limit (with the storage answering), and what it raised.
NoBudget == [checked |-> FALSE, breach |-> FALSE, raised |-> "none"]

NewJob == [pc |-> "new", task_type |-> "summarization", share_id |-> 1,
           retries |-> 0, calls |-> 0, lock_expires |-> 0, budget |-> NoBudget]
NoLock == [held |-> FALSE, holder |-> 0, expires |-> 0]
NoRow == [share_id |-> 0, task_type |-> "none", result_data |-> "none",
          model_version |-> "none", processing_ms |-> 0, created_at |-> 0]
NoHist == [upserts |-> 0, ok_upserts |-> 0,
           failed_write |-> FALSE, last |-> NoRow]

\* ------------------------------------- chunked transcription (merge_chunks)
Durations == 1..MaxDuration

\* A segment of a provider response: times relative to the audio sent.
Segment(a, b) == [start |-> a, end |-> b]

\* The responses the provider gives for audio of length d: at most
\* MaxSegments segments inside the audio, each of positive length, in
\* order and not overlapping.
SegmentLists(d) ==
    LET segs == {Segment(a, b) : a \in 0..d, b \in 0..d} 
        ok(q) == /\ \A i \in 1..Len(q) : q[i].start < q[i].end
                 /\ \A i \in 1..(Len(q) - 1) : q[i].end <= q[i + 1].start
    IN  UNION {{q \in [1..n -> segs] : ok(q)} : n \in 0..MaxSegments}

NoResult == [segments |-> << >>, duration_seconds |-> 0, billing_usd |-> 0,
             backend |-> "none"]

\* The options argument of the task: absent, an empty dict, a dict without
\* skip_silent, and dicts that set it.
OptionsValues == {"None", "empty", "language", "skip_silent", "no_skip_silent"}

\* bool(options).
Truthy(options) == options \notin {"None", "empty"}

\* options.get('skip_silent', True).
SkipSilent(options) == options # "no_skip_silent"

\* WHISPER_SILENCE_THRESHOLD_DB, by default.
silence_threshold_db == 0 - 40

MeanVolumes == {silence_threshold_db - 1, silence_threshold_db, silence_threshold_db + 1}

\* AudioProcessor.detect_silence: is_silent is mean_volume < threshold; when
\* the volume statistics cannot be read, or ffmpeg fails, it is False.
detect_silence(mean_volume, analysed) ==
    [is_silent |-> analysed /\ mean_volume < silence_threshold_db,
     mean_volume |-> IF analysed THEN mean_volume ELSE 0]

\* The result saved for silent audio.
silence_result(duration) ==
    [text |-> "[Audio appears to be silent or extremely quiet]",
     segments |-> << >>, duration_seconds |-> duration, billing_usd |-> 0,
     backend |-> "skipped"]

NoSilence == [phase |-> "pending", options |-> "None", mean_volume |-> 0,
              row |-> NoResult, success |-> FALSE]

MergeInit ==
    /\ audio_duration = 0
    /\ chunks = << >>
    /\ chunk_results = << >>
    /\ final_result = NoResult
    /\ silence = NoSilence

\* AudioProcessor.chunk_audio: int((duration + CHUNK - 1) / CHUNK) chunks of
\* CHUNK_DURATION_SECONDS, the last one ending at the duration; the 1 of
\* the formula is one second.
NumChunks(duration) ==
    (duration + ChunkDuration - UnitsPerSecond) \div ChunkDuration

chunk_audio(duration) ==
    IF duration <= ChunkDuration
    THEN << [start_time |-> 0, end_time |-> duration] >>
    ELSE [i \in 1..NumChunks(duration) |->
            [start_time |-> (i - 1) * ChunkDuration,
             end_time |-> Min(i * ChunkDuration, duration)]]

\* TranscriptionService._calculate_cost, in cost units per time unit (the
\* rounding to 6 decimals leaves whole units as they are).
_calculate_cost(duration_seconds) == duration_seconds

\* The timestamps of a segment moved by the start offset of its chunk.
\* Variant: the timestamps are left relative to the chunk.
AdjustedSegmentNoOffset(segment, offset) == segment

AdjustedSegment(segment, offset) ==
    Segment(segment.start + offset, segment.end + offset)

\* list.sort(key=lambda s: s.start): stable insertion by start time.
RECURSIVE SortByStart(_)
SortByStart(q) ==
    IF Len(q) <= 1 THEN q
    ELSE LET rest == SortByStart(SubSeq(q, 1, Len(q) - 1))
             x == q[Len(q)]
             before == SelectSeq(rest, LAMBDA y : y.start <= x.start)
             after == SelectSeq(rest, LAMBDA y : y.start > x.start)
         IN  before \o << x >> \o after

\* The loop of merge_chunks over the first n pairs: segments collected,
\* cost added up, total_duration = max(total_duration, offset + duration).
RECURSIVE MergeLoop(_, _)
MergeLoop(pairs, n) ==
    IF n = 0 THEN [segments |-> << >>, total_cost |-> 0, total_duration |-> 0]
    ELSE LET acc == MergeLoop(pairs, n - 1)
             result == pairs[n].result
             offset == pairs[n].offset
         IN  [segments |-> acc.segments \o
                    [i \in 1..Len(result.segments) |->
                        AdjustedSegment(result.segments[i], offset)],
              total_cost |-> acc.total_cost + result.billing_usd,
              total_duration |-> Max(acc.total_duration,
                                     offset + result.duration_seconds)]

\* Variant: the duration of the last result is taken, without its offset.
merge_chunks_last_duration(pairs) ==
    LET acc == MergeLoop(pairs, Len(pairs))
    IN  [segments |-> SortByStart(acc.segments),
         duration_seconds |-> pairs[Len(pairs)].result.duration_seconds,
         billing_usd |-> acc.total_cost,
         backend |-> "api"]

\* TranscriptionService.merge_chunks.
merge_chunks(pairs) ==
    LET acc == MergeLoop(pairs, Len(pairs))
    IN  [segments |-> SortByStart(acc.segments),
         duration_seconds |-> acc.total_duration,
         billing_usd |-> acc.total_cost,
         backend |-> "api"]

\* The part of the state the chunking steps leave alone.
OutsideMerge ==
    << now, rlstate, poolstate, jobs, locks, results, costRows, hist,
       budgetstate, vectorstate, preflight, libstate >>

\* Phase 2 of transcribe_api: extract_audio returns the duration.
extract_audio(duration) ==
    /\ audio_duration = 0
    /\ audio_duration' = duration
    /\ UNCHANGED << chunks, chunk_results, final_result, silence, OutsideMerge >>

\* Phase 3.5 of transcribe_api, for audio of the given mean volume: the
\* check runs if options is truthy and does not switch skip_silent off; for
\* silent audio the placeholder result is saved and the task returns
\* success (a failure of the save is an exception of the task).
CheckSilence(options, mean_volume, analysed, saved) ==
    /\ audio_duration > 0
    /\ silence.phase = "pending"
    /\ LET checks == Truthy(options) /\ SkipSilent(options)
           silence_check == detect_silence(mean_volume, analysed)
           skips == checks /\ silence_check.is_silent
       IN  silence' = [phase |-> IF skips THEN "returned" ELSE "passed",
                       options |-> options,
                       mean_volume |-> mean_volume,
                       row |-> IF skips /\ saved
                               THEN silence_result(audio_duration) ELSE NoResult,
                       success |-> skips /\ saved]
    /\ UNCHANGED << audio_duration, chunks, chunk_results, final_result, OutsideMerge >>

\* Phase 4 of transcribe_api, needs_chunking: chunk_audio is called because
\* of the duration or because of the file size.
ChunkAudio ==
    /\ audio_duration > 0
    /\ silence.phase = "passed"
    /\ chunks = << >>
    /\ chunks' = chunk_audio(audio_duration)
    /\ UNCHANGED << audio_duration, chunk_results, final_result, silence, OutsideMerge >>

\* One pass of the chunk loop: transcription_service.transcribe_api returns
\* the provider's segments with the duration it was given, end - start.
TranscribeChunk(segments) ==
    /\ Len(chunk_results) < Len(chunks)
    /\ final_result = NoResult
    /\ LET chunk == chunks[Len(chunk_results) + 1]
           duration_seconds == chunk.end_time - chunk.start_time
           chunk_result == [segments |-> segments,
                            duration_seconds |-> duration_seconds,
                            billing_usd |-> _calculate_cost(duration_seconds),
                            backend |-> "api"]
       IN  /\ segments \in SegmentLists(duration_seconds)
           /\ chunk_results' = Append(chunk_results,
                                    [result |-> chunk_result, offset |-> chunk.start_time])
    /\ UNCHANGED << audio_duration, chunks, final_result, silence, OutsideMerge >>

\* merge_chunks of all chunk results, or of those collected so far when
\* SoftTimeLimitExceeded interrupts the loop.
MergeChunks(timeout) ==
    /\ chunk_results # << >>
    /\ final_result = NoResult
    /\ timeout \/ Len(chunk_results) = Len(chunks)
    /\ final_result' = merge_chunks(chunk_results)
    /\ UNCHANGED << audio_duration, chunks, chunk_results, silence, OutsideMerge >>

\* ------------------------------------- vector service: embeddings store
Runs == 1..MaxRuns
ChunkCounts == 1..MaxChunks

\* No ml_results row of task_type embed_vectors for the share.
NoEmbedResult == [run |-> 0, embeddings_count |-> 0]

\* The rows of the embeddings table that run r of the task writes for a
\* share with n chunks; run and chunk_index stand for the stored vector.
EmbeddingRowsOf(s, r, n) ==
    {[share_id |-> s, run |-> r, chunk_index |-> i] : i \in 1..n}

\* The task has not run for the share.
NoReturn == [status |-> "none", reason |-> "none", run |-> 0, provider_called |-> FALSE,
             retries |-> 0]

\* Preprocessed text as the spans the patterns of the preprocessor tell
\* apart, separated by single spaces: a word, a URL, a mention, a hashtag,
\* and a phrase of the spam list.
SpanKinds == {"word", "url", "mention", "hashtag", "spam"}
Contents == UNION {[1..n -> SpanKinds] : n \in 0..MaxSpans}

\* The characters of a span: "hello", "https://a.io", "@user", "#tag1",
\* "click here".
SpanChars(kind) ==
    CASE kind = "url" -> 12
      [] kind = "spam" -> 10
      [] OTHER -> 5

\* len(content.strip()).
RECURSIVE StrippedLength(_)
StrippedLength(content) ==
    IF Len(content) = 0 THEN 0
    ELSE IF Len(content) = 1 THEN SpanChars(content[1])
    ELSE StrippedLength(SubSeq(content, 1, Len(content) - 1)) + 1
            + SpanChars(content[Len(content)])

\* pattern.sub('', content) for the spans of the given kinds.
Without(content, kinds) == SelectSeq(content, LAMBDA k : k \notin kinds)

ContentTypes == {"caption", "transcript", "article", "tweet", "comment",
                 "summary", "composite"}

\* should_skip_embedding's default min_length.
min_length == 10

\* ContentPreprocessor._is_likely_spam, for text with a phrase of the list.
_is_likely_spam(content) == \E i \in 1..Len(content) : content[i] = "spam"

\* ContentPreprocessor.should_skip_embedding: the reason, or "none".
should_skip_embedding(content, content_type) ==
    IF StrippedLength(content) < min_length THEN "Content too short"
    ELSE IF Without(content, {"url"}) = << >> THEN "Content contains only URLs"
    ELSE IF /\ content_type \in {"tweet", "caption"}
            /\ Without(content, {"mention", "hashtag"}) = << >>
         THEN "Content contains only mentions/hashtags"
    ELSE IF _is_likely_spam(content) THEN "Content appears to be spam"
    ELSE "none"

VectorInit ==
    /\ embed_results = [s \in Shares |-> NoEmbedResult]
    /\ embeddings = {}
    /\ vector_costs = [s \in Shares |-> << >>]
    /\ embed_runs = [s \in Shares |-> [started |-> 0, committed |-> {}]]
    /\ embed_return = [s \in Shares |-> NoReturn]

\* Where a save can fail: in one of its statements or at conn.commit().
SaveFailures == {"none", "upsert", "delete", "insert", "commit"}

\* conn.rollback(): the tables are as before the transaction.
Rollback(before, written) == before

\* save_embedding_result: inside one transaction the ml_results row is
\* upserted, the share's embeddings are deleted and the new ones inserted;
\* track_vector_cost then inserts the cost row on a connection of its own
\* and commits it, and its failure is only logged; conn.commit() comes last.
\* Any exception rolls the transaction back.
save_embedding_result(s, n, failing, cost_ok) ==
    LET r == embed_runs[s].started + 1
        upserted == [embed_results EXCEPT
                        ![s] = [run |-> r, embeddings_count |-> n]]
        deleted == {e \in embeddings : e.share_id # s}
        inserted == deleted \cup
                        EmbeddingRowsOf(s, r, IF failing = "insert" THEN n - 1 ELSE n)
        results_written == IF failing = "upsert" THEN embed_results ELSE upserted
        rows_written == CASE failing = "upsert" -> embeddings
                          [] failing = "delete" -> embeddings
                          [] OTHER -> inserted
        cost_tracked == failing \in {"none", "commit"} /\ cost_ok
    IN  /\ r <= MaxRuns
        /\ embed_results' = IF failing = "none" THEN upserted
                            ELSE Rollback(embed_results, results_written)
        /\ embeddings' = IF failing = "none" THEN inserted
                         ELSE Rollback(embeddings, rows_written)
        /\ vector_costs' = IF cost_tracked
                           THEN [vector_costs EXCEPT ![s] = Append(@, r)]
                           ELSE vector_costs
        /\ embed_runs' = [embed_runs EXCEPT
                            ![s] = [started |-> r,
                                    committed |-> IF failing = "none"
                                                  THEN @.committed \cup {r}
                                                  ELSE @.committed]]
        /\ embed_return' = [embed_return EXCEPT
                            ![s] = [status |-> "success",
                                    reason |-> IF failing = "none" THEN "none"
                                               ELSE "save failed",
                                    run |-> r, provider_called |-> TRUE,
                                    retries |-> 0]]
        /\ UNCHANGED << now, rlstate, poolstate, jobs, locks, results, costRows,
                        hist, budgetstate, mergestate, preflight, libstate >>

\* The exceptions the except branches of generate_embeddings tell apart.
EmbedExceptions == {"RateLimitError", "BudgetExceededError", "Exception"}

\* The except branches of generate_embeddings, which is declared without
\* autoretry_for: RateLimitError and BudgetExceededError are raised again;
\* any other exception calls self.retry while request.retries is below
\* max_retries, and is raised again after that.
EmbedRaises(s, exception) ==
    LET r == embed_runs[s].started + 1
        retries == embed_return[s].retries
        retry == exception = "Exception" /\ retries < EmbedMaxRetries
    IN  /\ r <= MaxRuns
        /\ embed_runs' = [embed_runs EXCEPT ![s].started = r]
        /\ embed_return' = [embed_return EXCEPT
                                ![s] = [status |-> IF retry THEN "retry" ELSE "raised",
                                        reason |-> exception, run |-> r,
                                        provider_called |-> exception # "BudgetExceededError",
                                        retries |-> IF retry THEN retries + 1 ELSE 0]]
        /\ UNCHANGED << embed_results, embeddings, vector_costs >>
        /\ UNCHANGED << now, rlstate, poolstate, jobs, locks, results, costRows,
                        hist, budgetstate, mergestate, preflight, libstate >>

\* generate_embeddings: content that should_skip_embedding rejects makes the
\* task return status 'skipped' with the reason, before the budget check and
\* the provider; other content is embedded in n chunks and saved.
generate_embeddings(s, content, content_type, n, failing, cost_ok) ==
    LET skip_reason == should_skip_embedding(content, content_type)
        r == embed_runs[s].started + 1
    IN  IF skip_reason # "none"
        THEN /\ r <= MaxRuns
             /\ embed_runs' = [embed_runs EXCEPT ![s].started = r]
             /\ embed_return' = [embed_return EXCEPT
                                    ![s] = [status |-> "skipped", reason |-> skip_reason,
                                            run |-> r, provider_called |-> FALSE,
                                            retries |-> 0]]
             /\ UNCHANGED << embed_results, embeddings, vector_costs >>
             /\ UNCHANGED << now, rlstate, poolstate, jobs, locks, results, costRows,
                             hist, budgetstate, mergestate, preflight, libstate >>
        ELSE save_embedding_result(s, n, failing, cost_ok)

\* ------------------------------------- llm service: content pre-flight
\* Text as a sequence of characters: a letter, a space, a period, a newline.
Chars == {"a", " ", ".", "\n"}
Whitespace == {" ", "\n"}
TokenLimits == 0..MaxTokens

CHARS_PER_TOKEN == 4

\* TOKENS_PER_WORD = 0.75, as a fraction.
TOKENS_PER_WORD_NUM == 3
TOKENS_PER_WORD_DEN == 4

\* len(text.split()): the maximal runs of characters that are not whitespace.
WordCount(text) ==
    Cardinality({i \in 1..Len(text) :
                    /\ text[i] \notin Whitespace
                    /\ (i = 1 \/ text[i - 1] \in Whitespace)})

\* ContentPreflightService._estimate_tokens:
\* int((len / CHARS_PER_TOKEN + words * TOKENS_PER_WORD) / 2) + 1.
_estimate_tokens(text) ==
    (Len(text) * TOKENS_PER_WORD_DEN
        + WordCount(text) * TOKENS_PER_WORD_NUM * CHARS_PER_TOKEN)
      \div (2 * CHARS_PER_TOKEN * TOKENS_PER_WORD_DEN) + 1

\* str.rfind, as a 0-based index, -1 when the character does not occur.
rfind(text, ch) ==
    LET found == {i \in 1..Len(text) : text[i] = ch}
    IN  IF found = {} THEN 0 - 1
        ELSE (CHOOSE i \in found : \A k \in found : k <= i) - 1

\* int(len(text) * ratio * 0.95) with ratio = max_tokens / estimated_tokens.
TargetChars(text, max_tokens) ==
    (Len(text) * max_tokens * 19) \div (_estimate_tokens(text) * 20)

\* ContentPreflightService.truncate_to_limit: (truncated_text, was_truncated).
truncate_to_limit(text, max_tokens) ==
    IF _estimate_tokens(text) <= max_tokens
    THEN [text |-> text, was_truncated |-> FALSE]
    ELSE LET target_chars == TargetChars(text, max_tokens)
             truncated == SubSeq(text, 1, target_chars)
             last_period == rfind(truncated, ".")
             last_newline == rfind(truncated, "\n")
         IN  [text |-> IF 10 * last_period > 8 * target_chars
                       THEN SubSeq(truncated, 1, last_period + 1)
                       ELSE IF 10 * last_newline > 8 * target_chars
                       THEN SubSeq(truncated, 1, last_newline)
                       ELSE truncated,
              was_truncated |-> TRUE]

NoTruncation == [text |-> << >>, was_truncated |-> FALSE]
NoPreflight == [calls |-> 0, text |-> << >>, max_tokens |-> 0,
                first |-> NoTruncation, second |-> NoTruncation]

\* The text of the content, one character longer: every text of at most
\* MaxTextLen characters can reach the task.
AppendChar(ch) ==
    /\ preflight.calls = 0
    /\ Len(preflight.text) < MaxTextLen
    /\ preflight' = [preflight EXCEPT !.text = Append(@, ch)]
    /\ UNCHANGED << now, rlstate, poolstate, jobs, locks, results, costRows, hist,
                    budgetstate, vectorstate, mergestate, libstate >>

\* truncate_to_limit is called on the text.
TruncateToLimit(max_tokens) ==
    /\ preflight.calls = 0
    /\ preflight' = [preflight EXCEPT
                        !.calls = 1,
                        !.max_tokens = max_tokens,
                        !.first = truncate_to_limit(preflight.text, max_tokens)]
    /\ UNCHANGED << now, rlstate, poolstate, jobs, locks, results, costRows, hist,
                    budgetstate, vectorstate, mergestate, libstate >>

\* truncate_to_limit is called on what the first call returned, with the
\* same limit.
TruncateAgain ==
    /\ preflight.calls = 1
    /\ preflight' = [preflight EXCEPT
                        !.calls = 2,
                        !.second = truncate_to_limit(preflight.first.text,
                                                     preflight.max_tokens)]
    /\ UNCHANGED << now, rlstate, poolstate, jobs, locks, results, costRows, hist,
                    budgetstate, vectorstate, mergestate, libstate >>

\* ------------------------------------- adaptive back-off: record_attempt
\* BackoffStats(): what _get_stats returns when the stats key is missing.
BackoffStats == [success_count |-> 0, failure_count |-> 0,
                 consecutive_failures |-> 0, consecutive_successes |-> 0]

IdleRecorder == [pc |-> "idle", success |-> FALSE, stats |-> BackoffStats]

\* The keys of one (service, identifier): the stats document, the number of
\* entries of the history zset, the hash of the current hour; the
\* coroutines inside record_attempt; and the calls that have returned.
BackoffInit ==
    backoff = [stats |-> BackoffStats,
               history |-> 0,
               hour |-> [success |-> 0, failure |-> 0],
               rec |-> [c \in Clients |-> IdleRecorder],
               returned |-> [success |-> 0, failure |-> 0]]

OutsideBackoff ==
    << now, rlstate, poolstate, jobs, locks, results, costRows, hist,
       budgetstate, vectorstate, mergestate, preflight, loader, callstate >>

\* The attempts recorded or being recorded.
AttemptsStarted ==
    backoff.returned.success + backoff.returned.failure
        + Cardinality({c \in Clients : backoff.rec[c].pc # "idle"})

\* record_attempt up to its first await: redis.zadd of the entry.
RecordZadd(c, success) ==
    /\ backoff.rec[c].pc = "idle"
    /\ AttemptsStarted < MaxAttempts
    /\ backoff' = [backoff EXCEPT
                      !.history = @ + 1,
                      !.rec[c] = [pc |-> "prune", success |-> success,
                                  stats |-> BackoffStats]]
    /\ UNCHANGED OutsideBackoff

\* redis.zremrangebyscore of the entries older than the history window; the
\* attempts here all lie inside one window.
RecordPrune(c) ==
    /\ backoff.rec[c].pc = "prune"
    /\ backoff' = [backoff EXCEPT !.rec[c].pc = "get"]
    /\ UNCHANGED OutsideBackoff

\* _get_stats: redis.get of the stats document into the coroutine.
RecordGetStats(c) ==
    /\ backoff.rec[c].pc = "get"
    /\ backoff' = [backoff EXCEPT !.rec[c].pc = "hincr",
                                  !.rec[c].stats = backoff.stats]
    /\ UNCHANGED OutsideBackoff

\* The counters of the local stats after the attempt.
Counted(stats, success) ==
    IF success
    THEN [stats EXCEPT !.success_count = @ + 1,
                       !.consecutive_successes = @ + 1,
                       !.consecutive_failures = 0]
    ELSE [stats EXCEPT !.failure_count = @ + 1,
                       !.consecutive_failures = @ + 1,
                       !.consecutive_successes = 0]

\* _update_hourly_rate: redis.hincrby on the hash of the hour (and expire).
RecordHourly(c) ==
    /\ backoff.rec[c].pc = "hincr"
    /\ backoff' = [backoff EXCEPT
                      !.hour = IF backoff.rec[c].success
                               THEN [@ EXCEPT !.success = @ + 1]
                               ELSE [@ EXCEPT !.failure = @ + 1],
                      !.rec[c].pc = "save"]
    /\ UNCHANGED OutsideBackoff

\* The document _save_stats writes: the stats read earlier, counted.
SavedStats(c) == Counted(backoff.rec[c].stats, backoff.rec[c].success)

\* _save_stats: redis.set of the document; record_attempt returns.
RecordSave(c) ==
    /\ backoff.rec[c].pc = "save"
    /\ backoff' = [backoff EXCEPT
                      !.stats = SavedStats(c),
                      !.returned = IF backoff.rec[c].success
                                   THEN [@ EXCEPT !.success = @ + 1]
                                   ELSE [@ EXCEPT !.failure = @ + 1],
                      !.rec[c] = IdleRecorder]
    /\ UNCHANGED OutsideBackoff

\* ------------------------------------- rate limit configuration loader
\* The values of the Algorithm enum.
AlgorithmValues == {"sliding_window", "token_bucket"}

\* What a service of the document says about its algorithm: a value of the
\* enum, a name that is none, or nothing.
DocAlgorithms == AlgorithmValues \cup {"leaky_bucket", "absent"}

ConfigServices == {"openai", "anthropic", "whisper", "embeddings", "custom"}
DocServices == {"openai", "whisper", "custom"}

\* The 'services' mapping of a document, in the order of the file.
Documents ==
    UNION {{d \in [1..n -> [service : DocServices, algorithm : DocAlgorithms]] :
                \A i, k \in 1..n : i # k => d[i].service # d[k].service}
           : n \in 0..MaxServices}

\* A file that does not exist, a file without the 'services' key, or a
\* document.
ConfigFiles ==
    {[kind |-> "missing", services |-> << >>],
     [kind |-> "no_services", services |-> << >>]}
        \cup {[kind |-> "document", services |-> d] : d \in Documents}

NoConfigs == [s \in ConfigServices |-> "none"]

\* _load_defaults: the four default configurations are put into configs.
_load_defaults(configs) ==
    [s \in ConfigServices |->
        CASE s \in {"openai", "anthropic", "embeddings"} -> "token_bucket"
          [] s = "whisper" -> "sliding_window"
          [] OTHER -> configs[s]]

\* _parse_service_config: Algorithm(config.get('algorithm',
\* 'sliding_window')); a name outside the enum raises ValueError.
_parse_service_config(config) ==
    IF config.algorithm = "absent"
    THEN [raised |-> FALSE, algorithm |-> "sliding_window"]
    ELSE IF config.algorithm \in AlgorithmValues
    THEN [raised |-> FALSE, algorithm |-> config.algorithm]
    ELSE [raised |-> TRUE, algorithm |-> "none"]

\* The loop of _load_configs over the first n services: configs so far, and
\* whether a service raised (the loop ends there).
RECURSIVE ParseServices(_, _)
ParseServices(services, n) ==
    IF n = 0 THEN [raised |-> FALSE, configs |-> NoConfigs]
    ELSE LET before == ParseServices(services, n - 1)
             parsed == _parse_service_config(services[n])
         IN  IF before.raised \/ parsed.raised
             THEN [before EXCEPT !.raised = TRUE]
             ELSE [before EXCEPT !.configs[services[n].service] = parsed.algorithm]

\* _load_configs: the configs after the call and whether the call raised.
\* A missing file and a file without 'services' load the defaults; so does
\* any exception, which the except Exception branch logs.
_load_configs(file) ==
    IF file.kind # "document"
    THEN [raised |-> FALSE, configs |-> _load_defaults(NoConfigs)]
    ELSE LET parsed == ParseServices(file.services, Len(file.services))
         IN  IF parsed.raised
             THEN [raised |-> FALSE, configs |-> _load_defaults(parsed.configs)]
             ELSE [raised |-> FALSE, configs |-> parsed.configs]

NotLoaded == [loaded |-> FALSE, file |-> [kind |-> "missing", services |-> << >>],
              raised |-> FALSE, configs |-> NoConfigs]

\* RateLimitConfigLoader(config_path): __init__ calls _load_configs.
LoadConfigs(file) ==
    /\ ~loader.loaded
    /\ LET result == _load_configs(file)
       IN  loader' = [loaded |-> TRUE, file |-> file,
                      raised |-> result.raised, configs |-> result.configs]
    /\ UNCHANGED << now, rlstate, poolstate, jobs, locks, results, costRows, hist,
                    budgetstate, vectorstate, mergestate, preflight, backoff, callstate >>

TaskInit ==
    /\ loader = NotLoaded
    /\ limiter_call = NoLimiterCall
    /\ wrapped = [c \in Clients |-> NotInvoked]
    /\ BackoffInit
    /\ preflight = NoPreflight
    /\ VectorInit
    /\ MergeInit
    /\ jobs = [j \in Jobs |-> NewJob]
    /\ locks = [key \in TaskKeys |-> NoLock]
    /\ results = << >>
    /\ costRows = [key \in TaskKeys |-> 0]
    /\ hist = [key \in TaskKeys |-> NoHist]
    /\ budget_call = NoCall

JobKey(j) == << jobs[j].task_type, jobs[j].share_id >>
RowKey(row) == << row.task_type, row.share_id >>

\* The lock key exists in the store: set and not yet expired.
LockHeld(key) == locks[key].held /\ now < locks[key].expires

\* 4.J: submission takes the lock of (task_type, share_id) with its expiry;
\* a submission that finds the lock held is dropped.
apply_async(j, t, s) ==
    /\ jobs[j].pc = "new"
    /\ IF LockHeld(<< t, s >>)
       THEN /\ jobs' = [jobs EXCEPT ![j] = [@ EXCEPT !.pc = "dropped",
                                        !.task_type = t, !.share_id = s]]
            /\ UNCHANGED locks
       ELSE /\ jobs' = [jobs EXCEPT ![j] = [@ EXCEPT !.pc = "queued",
                                        !.task_type = t, !.share_id = s,
                                        !.lock_expires = now + lock_expiry(t)]]
            /\ locks' = [locks EXCEPT ![<< t, s >>] =
                            [held |-> TRUE, holder |-> j, expires |-> now + lock_expiry(t)]]
    /\ UNCHANGED << now, results, costRows, hist, rlstate, poolstate, budgetstate, vectorstate, mergestate, preflight, libstate >>

\* A worker process starts: clear_locks(redis_client) either removes every
\* singleton lock or raises, which is caught and logged.
init_worker_process(cleared) ==
    /\ locks' = IF cleared THEN [key \in TaskKeys |-> NoLock] ELSE locks
    /\ UNCHANGED << now, jobs, results, costRows, hist, rlstate, poolstate, budgetstate, vectorstate, mergestate, preflight, libstate >>

\* 4.J: the holder releases its lock when the task ends for good.
ReleaseLock(j) ==
    IF locks[JobKey(j)].holder = j
    THEN [locks EXCEPT ![JobKey(j)] = NoLock]
    ELSE locks

\* Variant: DO UPDATE leaves created_at out.
UpsertKeepingCreatedAt(rows, row) ==
    IF \E i \in 1..Len(rows) : RowKey(rows[i]) = RowKey(row)
    THEN [i \in 1..Len(rows) |->
            IF RowKey(rows[i]) = RowKey(row)
            THEN [rows[i] EXCEPT !.result_data = row.result_data,
                                 !.model_version = row.model_version,
                                 !.processing_ms = row.processing_ms]
            ELSE rows[i]]
    ELSE Append(rows, row)

\* INSERT ... ON CONFLICT (share_id, task_type) DO UPDATE SET result_data,
\* model_version, processing_ms, created_at.
Upsert(rows, row) ==
    IF \E i \in 1..Len(rows) : RowKey(rows[i]) = RowKey(row)
    THEN [i \in 1..Len(rows) |->
            IF RowKey(rows[i]) = RowKey(row)
            THEN [rows[i] EXCEPT !.result_data = row.result_data,
                                 !.model_version = row.model_version,
                                 !.processing_ms = row.processing_ms,
                                 !.created_at = row.created_at]
            ELSE rows[i]]
    ELSE Append(rows, row)

\* The row a task writes; ms is the processing time it measured.
Row(j, data, model, ms) ==
    [share_id |-> jobs[j].share_id, task_type |-> jobs[j].task_type,
     result_data |-> data, model_version |-> model,
     processing_ms |-> ms, created_at |-> now]

\* The history of a key after a write of a row was attempted.
Written(key, row, ok, success) ==
    [hist[key] EXCEPT
        !.upserts = IF ok THEN @ + 1 ELSE @,
        !.ok_upserts = IF ok /\ success THEN @ + 1 ELSE @,
        !.failed_write = @ \/ ~ok,
        !.last = IF ok THEN row ELSE @]

\* The task body begins on a worker.
StartTask(j) ==
    /\ jobs[j].pc = "queued"
    /\ jobs' = [jobs EXCEPT ![j] = [@ EXCEPT !.pc = "started", !.calls = 0,
                                               !.budget = NoBudget]]
    /\ UNCHANGED << now, locks, results, costRows, hist, rlstate, poolstate, budgetstate, vectorstate, mergestate, preflight, libstate >>

\* The task ends for good.
Ended(j, pc) ==
    [jobs[j] EXCEPT !.pc = pc, !.calls = 0, !.lock_expires = 0]

\* The task raised: it is retried while retries are left.
Retried(j) ==
    IF jobs[j].retries < max_task_retries(jobs[j].task_type)
    THEN [jobs[j] EXCEPT !.pc = "queued", !.retries = @ + 1, !.calls = 0]
    ELSE Ended(j, "failed")

\* The task raised an exception that is retried (self.retry / autoretry_for).
RaiseRetried(j) ==
    /\ jobs' = [jobs EXCEPT ![j] = Retried(j)]
    /\ locks' = IF Retried(j).pc = "failed" THEN ReleaseLock(j) ELSE locks

\* The task raised an exception that is not retried, or returned.
Finish(j, pc) ==
    /\ jobs' = [jobs EXCEPT ![j] = Ended(j, pc)]
    /\ locks' = ReleaseLock(j)

\* The estimated cost would take the hourly or the daily spending over a
\* limit that is set.
Breach(e, hu, du) ==
    \/ env.hourly_limit > 0 /\ hu + e > env.hourly_limit
    \/ env.daily_limit > 0 /\ du + e > env.daily_limit

\* The budget check of a task body, before any provider call.
\*  summarize_content: a refusal raises BudgetExceededError, which is raised
\*    again without saving; DatabaseError goes to the except Exception branch.
\*  transcribe_api: a refusal raises BudgetExceededError; every exception of
\*    the body is retried by autoretry_for=(Exception,).
CheckBudget(j, e, hu, du, storage, saved, ms) ==
    /\ jobs[j].pc = "started"
    /\ LET svc == IF jobs[j].task_type = "summarization" THEN "llm" ELSE "whisper"
           r == check_budget_limits(svc, e, hu, du, storage)
           raised == IF r = "allowed" THEN "none"
                     ELSE IF r = "DatabaseError" THEN r ELSE "BudgetExceededError"
           found == [checked |-> TRUE, breach |-> storage = "ok" /\ Breach(e, hu, du),
                     raised |-> raised]
           me == [jobs[j] EXCEPT !.budget = found]
       IN  IF raised = "none"
           THEN /\ jobs' = [jobs EXCEPT ![j] = [me EXCEPT !.pc = "running"]]
                /\ UNCHANGED << locks, results, hist >>
           ELSE IF jobs[j].task_type = "transcription"
           THEN /\ jobs' = [jobs EXCEPT ![j] = [Retried(j) EXCEPT !.budget = found]]
                /\ locks' = IF Retried(j).pc = "failed" THEN ReleaseLock(j) ELSE locks
                /\ UNCHANGED << results, hist >>
           ELSE IF raised = "BudgetExceededError"
           THEN /\ jobs' = [jobs EXCEPT ![j] = [Ended(j, "failed") EXCEPT !.budget = found]]
                /\ locks' = ReleaseLock(j)
                /\ UNCHANGED << results, hist >>
           ELSE LET row == Row(j, "failed", "unknown", ms)
                IN  /\ results' = IF saved THEN Upsert(results, row) ELSE results
                    /\ hist' = [hist EXCEPT ![JobKey(j)] =
                                    Written(JobKey(j), row, saved, FALSE)]
                    /\ jobs' = [jobs EXCEPT ![j] =
                                    [Ended(j, "failed") EXCEPT !.budget = found]]
                    /\ locks' = ReleaseLock(j)
    /\ UNCHANGED << now, costRows, rlstate, poolstate, budgetstate, vectorstate, mergestate, preflight, libstate >>

\* A call of one of the check_budget_limits functions on its own.
BudgetQuery(svc, e, hu, du, storage) ==
    /\ budget_call' = [service |-> svc, estimated |-> e, hourly_used |-> hu,
                       daily_used |-> du, storage |-> storage,
                       result |-> check_budget_limits(svc, e, hu, du, storage)]
    /\ UNCHANGED << now, rlstate, poolstate, jobs, locks, results, costRows, hist, env,
                    vectorstate, mergestate, preflight, libstate >>

\* ---- summarize_content
\* ContentValidationError is raised again without saving.
RaiseExpected(j) ==
    /\ jobs[j].pc = "running"
    /\ jobs[j].task_type = "summarization"
    /\ Finish(j, "failed")
    /\ UNCHANGED << now, results, costRows, hist, rlstate, poolstate, budgetstate, vectorstate, mergestate, preflight, libstate >>

\* LLMRateLimitError: self.retry.
RetryRateLimited(j) ==
    /\ jobs[j].pc = "running"
    /\ jobs[j].task_type = "summarization"
    /\ RaiseRetried(j)
    /\ UNCHANGED << now, results, costRows, hist, rlstate, poolstate, budgetstate, vectorstate, mergestate, preflight, libstate >>

\* except Exception: an error record is saved if the store accepts it, and
\* the exception is raised again.
SaveErrorResult(j, saved, ms) ==
    LET row == Row(j, "failed", "unknown", ms)
    IN  /\ results' = IF saved THEN Upsert(results, row) ELSE results
        /\ hist' = [hist EXCEPT ![JobKey(j)] = Written(JobKey(j), row, saved, FALSE)]
        /\ Finish(j, "failed")

\* Any other exception before the provider answered (the provider call included).
FailSummarize(j, saved, ms) ==
    /\ jobs[j].pc = "running"
    /\ jobs[j].task_type = "summarization"
    /\ SaveErrorResult(j, saved, ms)
    /\ UNCHANGED << now, costRows, rlstate, poolstate, budgetstate, vectorstate, mergestate, preflight, libstate >>

\* llm_client.generate_summary returned.
generate_summary(j) ==
    /\ jobs[j].pc = "running"
    /\ jobs[j].task_type = "summarization"
    /\ jobs' = [jobs EXCEPT ![j] = [@ EXCEPT !.pc = "dispatched", !.calls = 1]]
    /\ UNCHANGED << now, locks, results, costRows, hist, rlstate, poolstate, budgetstate, vectorstate, mergestate, preflight, libstate >>

CostOutcomes == {"written", "swallowed", "raised"}

\* Variant: the insert is never committed and nothing is logged.
track_llm_cost_uncommitted(j, outcome, saved, ms) ==
    /\ jobs[j].pc = "dispatched"
    /\ jobs[j].task_type = "summarization"
    /\ jobs' = [jobs EXCEPT ![j] = [@ EXCEPT !.pc = "costed"]]
    /\ UNCHANGED << now, locks, results, costRows, hist, rlstate, poolstate, budgetstate, vectorstate, mergestate, preflight, libstate >>

\* track_llm_cost: the row is written, or a psycopg2.Error is logged and
\* swallowed, or the connection fails and DatabaseError reaches the task.
track_llm_cost(j, outcome, saved, ms) ==
    /\ jobs[j].pc = "dispatched"
    /\ jobs[j].task_type = "summarization"
    /\ costRows' = [costRows EXCEPT ![JobKey(j)] = IF outcome = "written" THEN @ + 1 ELSE @]
    /\ IF outcome = "raised"
       THEN SaveErrorResult(j, saved, ms)
       ELSE /\ jobs' = [jobs EXCEPT ![j] = [@ EXCEPT !.pc = "costed"]]
            /\ hist' = [hist EXCEPT ![JobKey(j)].failed_write = @ \/ outcome = "swallowed"]
            /\ UNCHANGED << locks, results >>
    /\ UNCHANGED << now, rlstate, poolstate, budgetstate, vectorstate, mergestate, preflight, libstate >>

\* save_summarization_result: the upsert commits, or DatabaseError takes the
\* task to its except Exception branch.
save_summarization_result(j, ok, saved, ms) ==
    /\ jobs[j].pc = "costed"
    /\ jobs[j].task_type = "summarization"
    /\ IF ok
       THEN LET row == Row(j, "success", "gpt", ms)
            IN  /\ results' = Upsert(results, row)
                /\ hist' = [hist EXCEPT ![JobKey(j)] = Written(JobKey(j), row, TRUE, TRUE)]
                /\ Finish(j, "done")
       ELSE LET row == Row(j, "failed", "unknown", ms)
            IN  /\ results' = IF saved THEN Upsert(results, row) ELSE results
                /\ hist' = [hist EXCEPT ![JobKey(j)] =
                                [Written(JobKey(j), row, saved, FALSE)
                                    EXCEPT !.failed_write = TRUE]]
                /\ Finish(j, "failed")
    /\ UNCHANGED << now, costRows, rlstate, poolstate, budgetstate, vectorstate, mergestate, preflight, libstate >>

\* ---- transcribe_api
\* Any exception of the task body: autoretry_for=(Exception,).
FailTranscribe(j) ==
    /\ jobs[j].pc = "running"
    /\ jobs[j].task_type = "transcription"
    /\ RaiseRetried(j)
    /\ UNCHANGED << now, results, costRows, hist, rlstate, poolstate, budgetstate, vectorstate, mergestate, preflight, libstate >>

\* Silent audio: a result with billing 0 is saved and the task returns.
SilentSkip(j, ok, ms) ==
    /\ jobs[j].pc = "running"
    /\ jobs[j].task_type = "transcription"
    /\ jobs[j].calls = 0
    /\ LET row == Row(j, "silent", "whisper", ms)
       IN  /\ results' = IF ok THEN Upsert(results, row) ELSE results
           /\ hist' = [hist EXCEPT ![JobKey(j)] = Written(JobKey(j), row, ok, FALSE)]
           /\ IF ok THEN Finish(j, "done") ELSE RaiseRetried(j)
    /\ UNCHANGED << now, costRows, rlstate, poolstate, budgetstate, vectorstate, mergestate, preflight, libstate >>

\* transcription_service.transcribe_api returned, for the file or a chunk.
transcribe_api(j) ==
    /\ jobs[j].pc = "running"
    /\ jobs[j].task_type = "transcription"
    /\ jobs[j].calls < MaxChunks
    /\ jobs' = [jobs EXCEPT ![j].calls = @ + 1]
    /\ UNCHANGED << now, locks, results, costRows, hist, rlstate, poolstate, budgetstate, vectorstate, mergestate, preflight, libstate >>

\* SoftTimeLimitExceeded in the chunk loop: _save_partial_result of the chunks
\* so far (a failure of the save is logged), then the exception is raised.
ChunkTimeout(j, ok, ms) ==
    /\ jobs[j].pc = "running"
    /\ jobs[j].task_type = "transcription"
    /\ jobs[j].calls >= 1
    /\ LET row == Row(j, "partial", "whisper", ms)
       IN  /\ results' = IF ok THEN Upsert(results, row) ELSE results
           /\ hist' = [hist EXCEPT ![JobKey(j)] = Written(JobKey(j), row, ok, FALSE)]
    /\ RaiseRetried(j)
    /\ UNCHANGED << now, costRows, rlstate, poolstate, budgetstate, vectorstate, mergestate, preflight, libstate >>

\* save_transcription_result of the final result.
save_transcription_result(j, ok, ms) ==
    /\ jobs[j].pc = "running"
    /\ jobs[j].task_type = "transcription"
    /\ jobs[j].calls >= 1
    /\ LET row == Row(j, "success", "whisper", ms)
       IN  /\ results' = IF ok THEN Upsert(results, row) ELSE results
           /\ hist' = [hist EXCEPT ![JobKey(j)] = Written(JobKey(j), row, ok, TRUE)]
    /\ IF ok
       THEN /\ jobs' = [jobs EXCEPT ![j].pc = "saved"]
            /\ UNCHANGED locks
       ELSE RaiseRetried(j)
    /\ UNCHANGED << now, costRows, rlstate, poolstate, budgetstate, vectorstate, mergestate, preflight, libstate >>

\* track_transcription_cost, one row for the whole transcription.
track_transcription_cost(j, outcome) ==
    /\ jobs[j].pc = "saved"
    /\ jobs[j].task_type = "transcription"
    /\ costRows' = [costRows EXCEPT ![JobKey(j)] = IF outcome = "written" THEN @ + 1 ELSE @]
    /\ hist' = [hist EXCEPT ![JobKey(j)].failed_write = @ \/ outcome # "written"]
    /\ IF outcome = "raised" THEN RaiseRetried(j) ELSE Finish(j, "done")
    /\ UNCHANGED << now, results, rlstate, poolstate, budgetstate, vectorstate, mergestate, preflight, libstate >>

Tick ==
    /\ now < MaxTime
    /\ now' = now + 1
    /\ sel' = NotSelected
    /\ UNCHANGED << rlstate, llmpool, wpool, service, taskstate >>

vars == << now, rlstate, poolstate, taskstate >>

Init ==
    /\ RLInit /\ PoolInit /\ service = "llm" /\ TaskInit /\ env = DefaultEnv
    /\ max_concurrent = MaxConcurrent

\* check_limit on the single-limit sliding-window service, concurrent clients.
NextWindow ==
    \/ Tick
    \/ \E c \in Clients, s \in {"whisper", "unknown"} : check_limit(c, s, 1)
    \/ \E c \in Clients : StoreEval(c)

SpecWindow == Init /\ [][NextWindow]_vars

\* check_limit on the sliding-window service with two limits.
NextMulti ==
    \/ Tick
    \/ \E c \in Clients : check_limit(c, "multi", 1)
    \/ \E c \in Clients : StoreEval(c)

SpecMulti == Init /\ [][NextMulti]_vars

\* Checks, usage recording and rollback on a sliding-window service.
NextUsage ==
    \/ Tick
    \/ \E c \in Clients : check_limit(c, "whisper", 1)
    \/ \E c \in Clients : StoreEval(c)
    \/ \E c \in Clients, k \in Costs : record_usage(c, "whisper", k)
    \/ \E c \in Clients, k \in Costs : rollback(c, "whisper", k)

SpecUsage == Init /\ [][NextUsage]_vars

\* Checks, usage recording and rollback on a token-bucket service.
NextBucket ==
    \/ Tick
    \/ \E c \in Clients, k \in Costs : check_limit(c, "openai", k)
    \/ \E c \in Clients : StoreEval(c)
    \/ \E c \in Clients, k \in Costs : record_usage(c, "openai", k)
    \/ \E c \in Clients, k \in Costs : rollback(c, "openai", k)

SpecBucket == Init /\ [][NextBucket]_vars

\* Dual request + token checks of concurrent dispatches.
NextDual ==
    \/ Tick
    \/ \E c \in Clients, k \in Costs : _check_dual_limits(c, k)
    \/ \E c \in Clients : StoreEval(c)

SpecDual == Init /\ [][NextDual]_vars

\* check_limit against a store whose calls can fail.
NextBreaker ==
    \/ Tick
    \/ \E c \in Clients, s \in {"multi", "unknown"} : check_limit(c, s, 1)
    \/ \E c \in Clients : StoreEval(c)
    \/ \E c \in Clients, applied \in BOOLEAN : StoreFails(c, applied)

SpecBreaker == Init /\ [][NextBreaker]_vars

\* Concurrent dispatches sharing one key pool.
NextPool ==
    \/ Tick
    \/ \E d \in Dispatches : SelectKey(d)
    \/ \E d \in Dispatches : ReturnsResult(d, 1, 1)
    \/ \E d \in Dispatches, ra \in RetryAfters : mark_key_rate_limited(d, ra)
    \/ \E d \in Dispatches, m \in BOOLEAN : mark_key_error(d, m)

    \/ \E d \in Dispatches : WAcquire(d)
    \/ \E d \in Dispatches : WCheckRateLimit(d, TRUE)
    \/ \E d \in Dispatches : WSelectKey(d)
    \/ \E d \in Dispatches : WCallSucceeds(d)
    \/ \E d \in Dispatches : mark_rate_limited(d)
    \/ \E d \in Dispatches : mark_error(d)

InitPool ==
    /\ RLInit /\ PoolInit /\ service \in {"llm", "whisper"}
    /\ TaskInit /\ env = DefaultEnv
    /\ max_concurrent = MaxConcurrent

SpecPool == InitPool /\ [][NextPool]_vars

\* Submissions of summarize tasks while worker processes start up.
NextLock ==
    \/ Tick
    \/ \E j \in Jobs, s \in Shares : apply_async(j, "summarization", s)
    \/ \E cleared \in BOOLEAN : init_worker_process(cleared)
    \/ \E j \in Jobs : StartTask(j)
    \/ \E j \in Jobs, hu \in Spent : CheckBudget(j, 1, hu, hu, "ok", FALSE, 1)
    \/ \E j \in Jobs : RaiseExpected(j)
    \/ \E j \in Jobs : RetryRateLimited(j)
    \/ \E j \in Jobs : generate_summary(j)
    \/ \E j \in Jobs : track_llm_cost(j, "written", FALSE, 1)
    \/ \E j \in Jobs : save_summarization_result(j, TRUE, FALSE, 1)

SpecLock == Init /\ [][NextLock]_vars

\* The two task bodies with every outcome of their store writes.
NextTask ==
    \/ Tick
    \/ \E j \in Jobs, t \in TaskTypes, s \in Shares : apply_async(j, t, s)
    \/ \E j \in Jobs : StartTask(j)
    \/ \E j \in Jobs, hu \in {0, MaxSpent}, st \in {"ok", "connect_error"} :
            CheckBudget(j, 1, hu, hu, st, TRUE, 1)
    \/ \E j \in Jobs : RaiseExpected(j)
    \/ \E j \in Jobs : RetryRateLimited(j)
    \/ \E j \in Jobs, saved \in BOOLEAN, ms \in ProcessingTimes : FailSummarize(j, saved, ms)
    \/ \E j \in Jobs : generate_summary(j)
    \/ \E j \in Jobs, o \in CostOutcomes, saved \in BOOLEAN, ms \in ProcessingTimes :
            track_llm_cost(j, o, saved, ms)
    \/ \E j \in Jobs, ok \in BOOLEAN, saved \in BOOLEAN, ms \in ProcessingTimes :
            save_summarization_result(j, ok, saved, ms)
    \/ \E j \in Jobs : FailTranscribe(j)
    \/ \E j \in Jobs, ok \in BOOLEAN, ms \in ProcessingTimes : SilentSkip(j, ok, ms)
    \/ \E j \in Jobs : transcribe_api(j)
    \/ \E j \in Jobs, ok \in BOOLEAN, ms \in ProcessingTimes : ChunkTimeout(j, ok, ms)
    \/ \E j \in Jobs, ok \in BOOLEAN, ms \in ProcessingTimes : save_transcription_result(j, ok, ms)
    \/ \E j \in Jobs, o \in CostOutcomes : track_transcription_cost(j, o)

SpecTask == Init /\ [][NextTask]_vars

InitBudget ==
    /\ RLInit /\ PoolInit /\ service = "llm" /\ TaskInit
    /\ max_concurrent = MaxConcurrent
    /\ env \in Environments

\* The check_budget_limits functions of the three services, called with
\* every combination of settings, spending and storage behaviour.
NextBudget ==
    \E svc \in BudgetServices, e \in Estimates, hu \in Spent, du \in Spent,
       storage \in StorageOutcomes :
        hu <= du /\ BudgetQuery(svc, e, hu, du, storage)

SpecBudget == InitBudget /\ [][NextBudget]_vars

\* Task executions up to their end under every budget setting.
NextStrict ==
    \/ \E j \in Jobs, t \in TaskTypes, s \in Shares : apply_async(j, t, s)
    \/ \E j \in Jobs : StartTask(j)
    \/ \E j \in Jobs, e \in Estimates, hu \in Spent, du \in Spent,
          st \in StorageOutcomes, saved \in BOOLEAN :
            hu <= du /\ CheckBudget(j, e, hu, du, st, saved, 1)
    \/ \E j \in Jobs : generate_summary(j)
    \/ \E j \in Jobs : track_llm_cost(j, "written", FALSE, 1)
    \/ \E j \in Jobs : save_summarization_result(j, TRUE, FALSE, 1)
    \/ \E j \in Jobs : transcribe_api(j)
    \/ \E j \in Jobs : save_transcription_result(j, TRUE, 1)
    \/ \E j \in Jobs : track_transcription_cost(j, "written")

SpecStrict == InitBudget /\ [][NextStrict]_vars

\* ------------------------------------------------- rate limiter properties

\* Number of whisper check_limit calls that returned allowed=true at a time
\* in the interval (T - WhisperWindow, T].
AllowedInWindow(T) ==
    SumTo([t \in Times |-> IF t > T - WhisperWindow /\ t <= T THEN allowedAt[t] ELSE 0],
          MaxTime)

\* C1: for concurrent check_limit(cost=1) calls against a sliding-window
\* limit of N requests per w seconds, at most N calls return allowed=true
\* within any w-second interval.
C1_AtMostNPerWindow ==
    \A T \in Times : AllowedInWindow(T) <= WhisperRequests

C3_NoPartialConsumption ==
    \A c \in Clients :
        (cl[c].pc = "idle" /\ cl[c].result = "denied") => cl[c].consumed = 0

\* C4: record_usage(c) followed by rollback(c), with no other operation on
\* the service in between, leaves the observable limit state as it was.
C4_RecordThenRollbackIsNoOp ==
    \A c \in Clients :
        pair[c].phase = "done" => Observable(pair[c].svc) = pair[c].snap

\* C5: when the request check of the dual check succeeded and the token
\* check is refused, the request limit is back at its value before the
\* dual check when the refusal reaches the caller.
C5_DualRefusalRollsBack ==
    \A c \in Clients :
        (dual[c].phase = "refused" /\ dual[c].clean /\ cl[c].pc = "idle")
        => Observable("openai") = dual[c].snap

\* A key is available: active, or rate-limited with its rate-limit-until passed.
Available(k) ==
    IF service = "llm"
    THEN \/ key_status[k] = "active"
         \/ key_status[k] = "rate_limited" /\ now > key_rate_limited_until[k]
    ELSE \/ api_keys[k].status = "active"
         \/ api_keys[k].status = "rate_limited" /\ now > api_keys[k].rate_limit_until

\* C9: a key selection (get_next_key of the LLM pool, _get_next_available_key
\* of the whisper pool) returns only a key that is available when it is called,
\* and returns None exactly when no key of the pool is available.
C9_SelectsOnlyAvailable ==
    [][sel' # NotSelected =>
        /\ sel' \in Keys => Available(sel')
        /\ sel' = None <=> \A k \in Keys : ~Available(k)]_vars

\* A selection returned a key whose rate limit had run out while another key
\* was still rate limited.
C9_Witness ==
    \E k \in Keys :
        /\ service = "llm"
        /\ sel = k
        /\ cooling[k].until > 0
        /\ ~cooling[k].reactivated
        /\ \E j \in Keys : key_status[j] = "rate_limited" /\ now <= key_rate_limited_until[j]

Dispatched(j) == jobs[j].calls >= 1

\* C6: of two submissions of the same (task_type, share_id), only one performs
\* provider dispatch while the locks they took have not expired, also when
\* worker processes start up in between.
C6_OneRunnerPerLock ==
    \A i, j \in Jobs :
        (i # j /\ JobKey(i) = JobKey(j) /\ Dispatched(i) /\ Dispatched(j))
            => (now >= jobs[i].lock_expires \/ now >= jobs[j].lock_expires)

\* No task body is being executed.
Quiet ==
    \A j \in Jobs : jobs[j].pc \notin {"started", "running", "dispatched", "costed", "saved"}

C8_OneRowPerKey ==
    /\ \A i, k \in 1..Len(results) :
            i # k => RowKey(results[i]) # RowKey(results[k])
    /\ \A key \in TaskKeys :
            hist[key].upserts > 0 => \E i \in 1..Len(results) : results[i] = hist[key].last

\* A key was written at least twice, last by a success at a later time than
\* the first write, while another key has its own row.
C8_Witness ==
    /\ Len(results) = 2
    /\ \E key \in TaskKeys :
            /\ hist[key].upserts >= 2
            /\ hist[key].last.result_data = "success"
            /\ hist[key].last.created_at > 0

\* ------------------------------------------------- key health properties

\* Status and error count of a key in the pool in use.
PoolStatus(k) == IF service = "llm" THEN key_status[k] ELSE api_keys[k].status
PoolErrorCount(k) ==
    IF service = "llm" THEN key_error_count[k] ELSE api_keys[k].error_count

\* C11: a key enters status error only when its error count has reached 5,
\* and a key in status error stays in error and is not selected, whatever
\* the dispatches do with the pool afterwards.
C11_ErrorAtFiveAndSticky ==
    [][\A k \in Keys :
          /\ (PoolStatus(k) # "error" /\ PoolStatus(k)' = "error")
                => PoolErrorCount(k)' >= ErrorThreshold
          /\ PoolStatus(k) = "error"
                => (PoolStatus(k)' = "error" /\ sel' # k)]_vars

\* last_used of a key in the pool in use.
PoolLastUsed(k) ==
    IF service = "llm" THEN key_last_used[k] ELSE api_keys[k].last_used

\* Key k is at least as old in last_used as key j, pool order deciding ties.
OlderOrFirst(k, j) ==
    \/ PoolLastUsed(k) < PoolLastUsed(j)
    \/ PoolLastUsed(k) = PoolLastUsed(j) /\ k <= j

\* C12: a selection that returns a key returns, among the keys available when
\* it is called, the one with the oldest last_used (pool order on ties), and
\* sets that key's last_used to the time of the call.
C12_SelectsLeastRecentlyUsed ==
    [][\A k \in Keys :
          sel' = k =>
            /\ \A j \in Keys : Available(j) => OlderOrFirst(k, j)
            /\ PoolLastUsed(k)' = now]_vars

\* ------------------------------------------------- circuit breaker properties

\* C13: a store error during check_limit opens the circuit breaker for its
\* timeout and ends the call with RateLimiterUnavailableError: the call
\* returns neither an allowed nor a denied result.
C13_StoreErrorOpensBreaker ==
    [][\A c \in Clients :
          (stored'[c].failed /\ ~stored[c].failed)
          => /\ _circuit_breaker_open'
             /\ _circuit_breaker_reset_time' = now + CircuitBreakerSeconds
             /\ cl'[c].pc = "idle"
             /\ cl'[c].result = "unavailable"]_vars

\* The store failed on the second limit of a service after the first limit
\* had accepted the call.
C13_Witness ==
    \E c \in Clients :
        /\ stored[c].failed
        /\ cl[c].pc = "idle" /\ cl[c].result = "unavailable"
        /\ cl[c].svc = "multi" /\ cl[c].consumed > 0
        /\ _circuit_breaker_open

\* C14: a check_limit call made less than the breaker's timeout after the
\* latest store error raises RateLimiterUnavailableError without a store
\* call; a call made after the timeout has passed goes to the store again.
C14_FailFastWhileOpen ==
    \A c \in Clients :
        stored[c].entered =>
            /\ stored[c].cooling
                => /\ cl[c].pc = "idle" /\ cl[c].result = "unavailable"
                   /\ ~stored[c].invoked
            /\ (~stored[c].cooling /\ get_config(cl[c].svc))
                => (cl[c].pc = "eval" \/ stored[c].invoked)

\* One caller was refused while the breaker was open; another called after
\* the timeout and got its answer from the store.
C14_Witness ==
    \E c, d \in Clients :
        /\ stored[c].entered /\ stored[c].cooling /\ cl[c].result = "unavailable"
        /\ stored[d].entered /\ ~stored[d].cooling
        /\ stored[d].invoked /\ ~stored[d].failed
        /\ last_error # NoError /\ now >= last_error + CircuitBreakerSeconds
        /\ ~_circuit_breaker_open

\* ------------------------------------------------- budget properties

\* C15: in strict mode, a task whose budget check finds that the estimated
\* cost would breach the hourly or daily limit ends there with
\* BudgetExceededError: it has made no provider call, writes no cost row
\* and is not queued for a retry.
C15_StrictBreachIsTerminal ==
    [][\A j \in Jobs :
          (/\ env.strict_mode
           /\ ~jobs[j].budget.checked
           /\ jobs'[j].budget.checked
           /\ jobs'[j].budget.breach)
          => /\ jobs'[j].budget.raised = "BudgetExceededError"
             /\ jobs'[j].pc = "failed"
             /\ jobs'[j].retries = jobs[j].retries
             /\ jobs[j].calls = 0
             /\ costRows' = costRows]_vars

\* The call took the refusal branch of the function: it raised
\* BudgetExceededError, returned allowed=False, or logged the warning.
TookRefusal == budget_call.result \in {"BudgetExceededError", "refused", "warned"}

\* The condition of the budget rule on the inputs of the latest call.
CallBreach ==
    Breach(budget_call.estimated, budget_call.hourly_used, budget_call.daily_used)

\* C16: with the storage answering, check_budget_limits takes its refusal
\* branch exactly when a limit greater than 0 would be exceeded by
\* used + estimated; a limit of 0 never leads to a refusal.
C16_RefusesExactlyOnBreach ==
    (budget_call # NoCall /\ budget_call.storage = "ok")
        => (TookRefusal <=> CallBreach)

\* C17: with strict mode off, a call that finds a limit exceeded returns
\* allowed=true after logging a warning.
C17_NonStrictAllowsWithWarning ==
    (/\ budget_call # NoCall
     /\ budget_call.storage = "ok"
     /\ ~env.strict_mode
     /\ CallBreach)
        => budget_call.result = "warned"

\* C18: a call during which the connection or a statement fails returns
\* allowed=true, in strict and in non-strict mode.
C18_StorageErrorFailsOpen ==
    (budget_call # NoCall /\ budget_call.storage \in {"query_error", "connect_error"})
        => budget_call.result = "allowed"

\* ------------------------------------- whisper dispatches and their slots
InitSlots ==
    /\ RLInit /\ PoolInit /\ service = "whisper" /\ TaskInit /\ env = DefaultEnv
    /\ max_concurrent \in 1..MaxConcurrent

\* Calls of transcribe_with_rate_limit on one client, with every answer of
\* the rate limiter and of the provider.
NextSlots ==
    \/ \E d \in Dispatches : WAcquire(d)
    \/ \E d \in Dispatches, allowed \in BOOLEAN : WCheckRateLimit(d, allowed)
    \/ \E d \in Dispatches : WSelectKey(d)
    \/ \E d \in Dispatches : WCallSucceeds(d)
    \/ \E d \in Dispatches : mark_rate_limited(d)
    \/ \E d \in Dispatches : mark_error(d)

SpecSlots == InitSlots /\ [][NextSlots]_vars

\* The dispatch is inside the try block, holding a slot.
HoldsSlot(d) == wdisp[d].pc \in {"limit", "select", "call"}

\* C19: a dispatch that acquired a slot gives it back exactly once when it
\* leaves, whatever the exit (success, rate limit refusal, no key left,
\* provider error), so the counter always equals the number of dispatches
\* inside the try block; a dispatch whose acquire was refused leaves the
\* counter and the number of releases as they are.
C19_SlotReleasedOnEveryExit ==
    [][/\ \A d \in Dispatches :
            /\ (HoldsSlot(d) /\ wdisp'[d] = WDone)
                => /\ current_requests' = current_requests - 1
                   /\ slot_hist'.released = slot_hist.released + 1
            /\ (wdisp[d].pc = "acquire" /\ wdisp'[d] = WDone)
                => /\ current_requests' = current_requests
                   /\ slot_hist'.released = slot_hist.released
       /\ current_requests' = Cardinality({d \in Dispatches : HoldsSlot(d)'})]_vars

\* One dispatch was refused a slot, another took one and gave it back, and
\* no request is counted as in flight any more.
C19_Witness ==
    /\ \A d \in Dispatches : wdisp[d] = WDone
    /\ slot_hist.refused >= 1
    /\ slot_hist.released >= 1
    /\ slot_hist.released = slot_hist.acquired
    /\ current_requests = 0

\* C20: after a successful acquires and r releases with r <= a <= max, the
\* queue depth reports a - r requests in flight and max - (a - r) available
\* slots; before any acquire that is 0 in flight and max available.
C20_QueueDepthCounts ==
    (/\ slot_hist.released <= slot_hist.acquired
     /\ slot_hist.acquired <= max_concurrent)
        => /\ get_queue_depth.concurrent_requests
                = slot_hist.acquired - slot_hist.released
           /\ get_queue_depth.available_slots
                = max_concurrent - (slot_hist.acquired - slot_hist.released)
           /\ get_queue_depth.max_concurrent = max_concurrent

\* Two slots were acquired and one was released: 1 in flight, 1 available.
C20_Witness ==
    /\ max_concurrent = 2
    /\ slot_hist.acquired = 2
    /\ slot_hist.released = 1
    /\ get_queue_depth.concurrent_requests = 1
    /\ get_queue_depth.available_slots = 1

\* The first provider call of a dispatch is answered with a rate limit
\* error (status 429). In the LLM client that is an exception of the
\* provider's SDK whose message names rate_limit, handled by except Exception.
ProviderRateLimitsFirstCall(d) ==
    \/ service = "whisper" /\ wdisp[d].tried = 0 /\ mark_rate_limited(d)
    \/ service = "llm" /\ disp[d].attempt = 0 /\ mark_key_error(d, TRUE)

\* The key a dispatch holds for its provider call.
HeldKey(d) == IF service = "whisper" THEN wdisp[d].key ELSE disp[d].key

\* C21: when the first provider call of a dispatch is answered with a rate
\* limit error while the other key of the pool is usable, the key used is
\* marked rate_limited, the rotation counter for reason rate_limit goes up
\* by exactly one, and the dispatch goes on to take another key; the key it
\* takes next is not the one just marked.
C21_RateLimitRotates ==
    [][\A d \in Dispatches :
        /\ (/\ ProviderRateLimitsFirstCall(d)
            /\ \E k \in Keys : k # HeldKey(d) /\ PoolStatus(k) = "active")
            => /\ \A k \in Keys : k = HeldKey(d) => PoolStatus(k)' = "rate_limited"
               /\ api_key_rotations_total' = api_key_rotations_total + 1
               /\ (IF service = "whisper" THEN wdisp'[d].pc ELSE disp'[d].pc) = "select"
        /\ (service = "whisper" /\ wdisp[d].tried = 1 /\ WSelectKey(d))
            => \A k \in Keys :
                 (api_keys[k].status = "rate_limited" /\ ~is_available(k)) => sel' # k]_vars

\* ------------------------------------- token reconciliation of the LLM client
Tokens == 1..MaxTokens

\* Calls on one LLM client whose estimates are above, at and below the
\* provider's actual token count.
NextDeficit ==
    \/ \E d \in Dispatches : SelectKey(d)
    \/ \E d \in Dispatches, e \in Tokens, a \in Tokens : ReturnsResult(d, e, a)
    \/ \E d \in Dispatches : mark_key_error(d, FALSE)

SpecDeficit == Init /\ [][NextDeficit]_vars

\* C22: the token deficit is never negative; a reconciliation with
\* actual > estimated adds the shortfall to it, and one with
\* actual < estimated takes the difference off, stopping at 0.
C22_DeficitNeverNegative ==
    [][/\ token_deficit' >= 0
       /\ \A d \in Dispatches, e \in Tokens, a \in Tokens :
            ReturnsResult(d, e, a)
                => /\ a > e => token_deficit' = token_deficit + (a - e)
                   /\ a < e => token_deficit' = Max(0, token_deficit - (e - a))
                   /\ a = e => token_deficit' = token_deficit]_vars

\* After an underestimate had left a deficit, an overestimate brought it
\* back to 0: both dispatches have returned and the token limiter holds
\* the recorded shortfall.
C22_Witness ==
    /\ token_deficit = 0
    /\ \A d \in Dispatches : disp[d].pc = "done"
    /\ tb["openai_tokens"].has
    /\ tb["openai_tokens"].tokens < 0

\* ------------------------------------- saves of embedding results
NextEmbed ==
    \/ \E s \in Shares, content \in Contents, content_type \in ContentTypes,
          n \in ChunkCounts, failing \in SaveFailures, cost_ok \in BOOLEAN :
            generate_embeddings(s, content, content_type, n, failing, cost_ok)
    \/ \E s \in Shares, exception \in EmbedExceptions : EmbedRaises(s, exception)

SpecEmbed == Init /\ [][NextEmbed]_vars

\* The embeddings of a share are exactly the set written by the run its
\* ml_results row belongs to (none without a row).
EmbeddingsMatchResult ==
    \A s \in Shares :
        {e \in embeddings : e.share_id = s}
            = EmbeddingRowsOf(s, embed_results[s].run, embed_results[s].embeddings_count)

\* The runs that have a row in vector_costs.
CostedRuns(s) == {vector_costs[s][i] : i \in 1..Len(vector_costs[s])}

\* C23: after every save attempt, committed or failed, the embeddings of
\* a share are exactly the previous or exactly the new set, the one its
\* ml_results row describes, and the cost rows are those of the committed
\* saves: one row for each, none for a save that was rolled back.
C23_EmbedSaveIsAtomic ==
    /\ EmbeddingsMatchResult
    /\ \A s \in Shares :
        /\ CostedRuns(s) = embed_runs[s].committed
        /\ Len(vector_costs[s]) = Cardinality(embed_runs[s].committed)

\* C24: the cost write of a task adds one row to the cost table for each
\* provider call the execution made: one for a single call, one for each
\* chunk of a chunked transcription.
C24_CostRowPerProviderCall ==
    [][\A j \in Jobs :
        (jobs[j].pc = "saved" /\ costRows'[JobKey(j)] # costRows[JobKey(j)])
            => costRows'[JobKey(j)] = costRows[JobKey(j)] + jobs[j].calls]_vars

\* ------------------------------------- chunked transcriptions
NextMerge ==
    \/ \E d \in Durations : extract_audio(d)
    \/ \E o \in OptionsValues, v \in MeanVolumes, analysed, saved \in BOOLEAN :
            CheckSilence(o, v, analysed, saved)
    \/ ChunkAudio
    \/ \E q \in SegmentLists(ChunkDuration) : TranscribeChunk(q)
    \/ \E timeout \in BOOLEAN : MergeChunks(timeout)

SpecMerge == Init /\ [][NextMerge]_vars

\* The sum of the durations of the first n chunk results.
RECURSIVE SumOfDurations(_, _)
SumOfDurations(pairs, n) ==
    IF n = 0 THEN 0
    ELSE pairs[n].result.duration_seconds + SumOfDurations(pairs, n - 1)

\* C25: the duration_seconds of a merged result is the sum of the
\* durations of the chunks that were merged.
C25_MergedDurationIsSum ==
    final_result # NoResult
        => final_result.duration_seconds
                = SumOfDurations(chunk_results, Len(chunk_results))

\* The longest audio, cut into three chunks (two full ones and the rest),
\* has been merged.
C25_Witness ==
    /\ final_result # NoResult
    /\ Len(chunk_results) = 3
    /\ chunk_results[3].result.duration_seconds < ChunkDuration
    /\ final_result.duration_seconds = MaxDuration

C27_SilentAudioSkipped ==
    (silence.phase # "pending" /\ silence.mean_volume < silence_threshold_db)
        => /\ chunk_results = << >>
           /\ silence.success => silence.row = silence_result(audio_duration)

\* C28: a run of the embedding task that pre-flight skipped ended as a
\* success without a provider call and wrote the share's result row: a
\* row of that run with no embeddings.
C28_SkipWritesResultRow ==
    \A s \in Shares :
        embed_return[s].status = "skipped"
            => /\ ~embed_return[s].provider_called
               /\ embed_results[s].run = embed_return[s].run
               /\ embed_results[s].embeddings_count = 0

\* ------------------------------------- truncation of long content
NextTruncate ==
    \/ \E ch \in Chars : AppendChar(ch)
    \/ \E max_tokens \in TokenLimits : TruncateToLimit(max_tokens)
    \/ TruncateAgain

SpecTruncate == Init /\ [][NextTruncate]_vars

\* C29: truncate_to_limit applied with the same limit to the text a first
\* call returned gives that text back, with was_truncated false.
C29_TruncateIdempotent ==
    preflight.calls = 2
        => /\ preflight.second.text = preflight.first.text
           /\ ~preflight.second.was_truncated

\* ------------------------------------- refusals of the dual check
\* _check_dual_limits refuses the request cost inside _rate_limited_call,
\* before the provider is called: RateLimitError with the store's
\* retry_after reaches the key loop, whose except RateLimitError branch
\* handles it.
RequestLimitRefused(d, retry_after) == mark_key_rate_limited(d, retry_after)

\* C30: when the request check of the dual check refuses, the dispatch
\* ends with the rate-limit error and the selected key is not marked
\* rate-limited.
C30_RefusalFailsDispatch ==
    [][\A d \in Dispatches, ra \in RetryAfters :
        RequestLimitRefused(d, ra)
            => /\ disp'[d].pc = "done"
               /\ key_status' = key_status
               /\ key_rate_limited_until' = key_rate_limited_until]_vars

\* ------------------------------------- failures that are not retried
\* C31: when a task fails its validation, the execution ends as failed
\* without a retry and a failure result is recorded for its
\* (share_id, task_type).
C31_ValidationFailureRecorded ==
    [][\A j \in Jobs :
        RaiseExpected(j)
            => /\ jobs'[j].pc = "failed"
               /\ hist'[JobKey(j)].upserts = hist[JobKey(j)].upserts + 1
               /\ hist'[JobKey(j)].last.result_data = "failed"]_vars

\* C32: a run of a task that failed with the rate-limit error has asked
\* the broker for a retry, and no more often than max_retries allows.
C32_RateLimitedIsRetried ==
    \A s \in Shares :
        embed_return[s].reason = "RateLimitError"
            => /\ embed_return[s].status = "retry"
               /\ embed_return[s].retries <= EmbedMaxRetries

\* ------------------------------------- adaptive back-off
NextBackoff ==
    \/ \E c \in Clients, success \in BOOLEAN : RecordZadd(c, success)
    \/ \E c \in Clients : RecordPrune(c)
    \/ \E c \in Clients : RecordGetStats(c)
    \/ \E c \in Clients : RecordHourly(c)
    \/ \E c \in Clients : RecordSave(c)

SpecBackoff == Init /\ [][NextBackoff]_vars

\* C33: when no record_attempt is in progress, the stored success_count and
\* failure_count are the numbers of successes and failures recorded.
C33_NoLostAttempt ==
    (\A c \in Clients : backoff.rec[c].pc = "idle")
        => /\ backoff.stats.success_count = backoff.returned.success
           /\ backoff.stats.failure_count = backoff.returned.failure

\* ------------------------------------- configuration loading
NextLoader == \E file \in ConfigFiles : LoadConfigs(file)

SpecLoader == Init /\ [][NextLoader]_vars

\* A service of the file names an algorithm that is none.
NamesUnknownAlgorithm(file) ==
    \E i \in 1..Len(file.services) :
        file.services[i].algorithm \notin AlgorithmValues \cup {"absent"}

\* C34: loading a document in which a service names an unknown algorithm
\* raises, and leaves no configuration to be used.
C34_UnknownAlgorithmFailsFast ==
    (loader.loaded /\ NamesUnknownAlgorithm(loader.file))
        => /\ loader.raised
           /\ loader.configs = NoConfigs

\* --------------------------- ConcurrentRequestLimiter called directly
\* Calls made on the limiter so far.
LimiterCalls == slot_hist.acquired + slot_hist.refused + slot_hist.released

OutsideLimiter ==
    UNCHANGED << now, rlstate, llmpool, api_keys, current_key_index, wdisp,
                 max_concurrent, api_key_rotations_total, service, sel,
                 jobs, locks, results, costRows, hist, budgetstate, vectorstate,
                 mergestate, preflight, backoff, loader, wrapped >>

\* ConcurrentRequestLimiter.acquire, under the limiter's lock.
LimiterAcquire ==
    /\ LimiterCalls < MaxLimiterCalls
    /\ current_requests' = IF acquire THEN current_requests + 1 ELSE current_requests
    /\ slot_hist' = IF acquire THEN [slot_hist EXCEPT !.acquired = @ + 1]
                   ELSE [slot_hist EXCEPT !.refused = @ + 1]
    /\ limiter_call' = [op |-> "acquire", before |-> current_requests,
                        returned |-> acquire]
    /\ OutsideLimiter

\* ConcurrentRequestLimiter.release, under the limiter's lock; nothing
\* ties the call to an earlier acquire.
LimiterRelease ==
    /\ LimiterCalls < MaxLimiterCalls
    /\ current_requests' = release
    /\ slot_hist' = [slot_hist EXCEPT !.released = @ + 1]
    /\ limiter_call' = [op |-> "release", before |-> current_requests,
                        returned |-> FALSE]
    /\ OutsideLimiter

NextLimiter ==
    \/ LimiterAcquire
    \/ LimiterRelease

SpecLimiter == InitSlots /\ [][NextLimiter]_vars

\* C37: whatever the order of acquire and release calls, a release without
\* an acquire before it included, the number of requests in flight stays
\* between 0 and max_concurrent, and acquire answers true exactly when the
\* number in flight was below max_concurrent before the call.
C37_InFlightWithinBounds ==
    /\ 0 <= current_requests
    /\ current_requests <= max_concurrent
    /\ limiter_call.op = "acquire"
            => (limiter_call.returned <=> limiter_call.before < max_concurrent)

\* More releases than acquires have been made, and an acquire was refused
\* at full capacity.
C37_Witness ==
    /\ slot_hist.released > slot_hist.acquired
    /\ slot_hist.refused >= 1
    /\ limiter_call.op = "release"
    /\ limiter_call.before = 0
    /\ current_requests = 0

\* ------------------------------------------------ rate_limit decorator
\* What a call of the wrapped function does.
FuncOutcomes == {"returns", "RateLimitError", "Exception"}

OutsideWrapper ==
    UNCHANGED << now, rlstate, poolstate, jobs, locks, results, costRows, hist,
                 budgetstate, vectorstate, mergestate, preflight, backoff, loader,
                 limiter_call >>

\* async_wrapper is called on an object that has a rate limiter.
Invoke(c, raise_on_limit) ==
    /\ wrapped[c].pc = "idle"
    /\ ~stored[c].entered
    /\ wrapped' = [wrapped EXCEPT ![c] =
                    [NotInvoked EXCEPT !.pc = "check",
                                       !.raise_on_limit = raise_on_limit]]
    /\ OutsideWrapper

\* The wrapper awaits rate_limiter.check_limit(service, identifier, cost).
WrapperChecks(c) ==
    /\ wrapped[c].pc = "check"
    /\ ~stored[c].entered
    /\ check_limit(c, "whisper", 1)

\* Where a RateLimitError caught by the wrapper leads: it is raised again,
\* or the wrapper sleeps for retry_after and goes on.
OnRateLimitError(c) ==
    IF wrapped[c].raise_on_limit THEN "raised" ELSE "sleep"

\* check_limit has returned or raised.
AfterCheck(c) ==
    /\ wrapped[c].pc = "check"
    /\ stored[c].entered
    /\ cl[c].pc = "idle"
    /\ wrapped' = [wrapped EXCEPT ![c] =
            CASE cl[c].result = "allowed" -> [@ EXCEPT !.pc = "func", !.allowed = TRUE]
              [] cl[c].result = "denied" -> [@ EXCEPT !.pc = OnRateLimitError(c)]
              [] OTHER -> [@ EXCEPT !.pc = "raised"]]
    /\ OutsideWrapper

\* return await func(*args, **kwargs) inside the try block.
RunFunc(c, outcome) ==
    /\ wrapped[c].pc = "func"
    /\ wrapped' = [wrapped EXCEPT ![c] =
            [@ EXCEPT !.runs = @ + 1,
                      !.pc = CASE outcome = "returns" -> "returned"
                               [] outcome = "RateLimitError" -> OnRateLimitError(c)
                               [] OTHER -> "raised"]]
    /\ OutsideWrapper

\* After the sleep: return await func(*args, **kwargs) in the except branch.
RetryOnce(c, outcome) ==
    /\ wrapped[c].pc = "sleep"
    /\ wrapped' = [wrapped EXCEPT ![c] =
            [@ EXCEPT !.runs = @ + 1,
                      !.pc = IF outcome = "returns" THEN "returned" ELSE "raised"]]
    /\ OutsideWrapper

NextWrapper ==
    \/ Tick
    \/ \E c \in Clients, rol \in BOOLEAN : Invoke(c, rol)
    \/ \E c \in Clients : WrapperChecks(c)
    \/ \E c \in Clients : StoreEval(c)
    \/ \E c \in Clients, applied \in BOOLEAN : StoreFails(c, applied)
    \/ \E c \in Clients : AfterCheck(c)
    \/ \E c \in Clients, o \in FuncOutcomes : RunFunc(c, o)
    \/ \E c \in Clients, o \in FuncOutcomes : RetryOnce(c, o)

SpecWrapper == Init /\ [][NextWrapper]_vars

\* C40: with a rate limiter present, one invocation of the wrapper runs the
\* wrapped function at most once, and runs it only after the check_limit
\* call of that invocation has allowed it.
C40_RunsOnceAfterAllowed ==
    \A c \in Clients :
        /\ wrapped[c].runs <= 1
        /\ wrapped[c].runs >= 1 => wrapped[c].allowed

\* ------------------------------------------- termination of a dispatch
\* The steps one dispatch can take: the body of the attempt loop of
\* generate_summary_with_rate_limit or of transcribe_with_rate_limit.
DispatchStep(d) ==
    \/ SelectKey(d)
    \/ ReturnsResult(d, 1, 1)
    \/ \E ra \in RetryAfters : mark_key_rate_limited(d, ra)
    \/ \E m \in BOOLEAN : mark_key_error(d, m)
    \/ WAcquire(d)
    \/ WCheckRateLimit(d, TRUE)
    \/ WSelectKey(d)
    \/ WCallSucceeds(d)
    \/ mark_rate_limited(d)
    \/ mark_error(d)

\* The dispatch has returned its result or raised its error.
Finished(d) ==
    IF service = "llm" THEN disp[d].pc = "done" ELSE wdisp[d].pc = "done"

\* Every started dispatch is a coroutine the event loop keeps running, and
\* every call it awaits returns or raises.
SpecPoolFair ==
    SpecPool /\ \A d \in Dispatches : WF_vars(DispatchStep(d))

C36_OneOutcomePerCheck ==
    \A c \in Clients :
        (stored[c].entered /\ cl[c].pc = "idle")
            => /\ Len(stored[c].emitted) = 1
               /\ stored[c].emitted[1] \in {"allowed", "denied", "error"}

\* C38: whatever check_limit, record_usage and rollback calls have been
\* made on a token-bucket service, its stored token balance is at least 0
\* and at most the capacity.
C38_BalanceWithinCapacity ==
    \A s \in TBServices :
        tb[s].has
            => /\ 0 <= tb[s].tokens
               /\ tb[s].tokens <= RateLimitWindow(s)[1].capacity

\* C39: a successful summarization result stored for a share stays the
\* stored result of the share: no later execution that fails replaces it
\* with a failure record.
C39_SuccessNotReplacedByFailure ==
    [][\A i \in 1..Len(results) :
        (results[i].task_type = "summarization"
            /\ results[i].result_data = "success")
            => results'[i].result_data # "failed"]_vars
====
